---- MODULE Spec2Model ----
(***************************************************************************)
(* The three protocol decoders of libsigrokdecode kept in this repository: *)
(*   engine A  decoders/avr_hvsp/pd.py   (clocked 11-position frames)      *)
(*   engine B  decoders/avr_updi/pd.py   (self-clocked one-wire UART)      *)
(*   engine C  decoders/mcp23s17/pd.py   (register walk over SPI bytes)    *)
(* A behaviour follows one decoder instance (variable engine).  Every      *)
(* call of put() appends one record to out.                                *)
(***************************************************************************)
EXTENDS Integers, Sequences, FiniteSets, TLC

VARIABLES
    engine,          \* which decoder instance this behaviour follows
    out,             \* annotations put since decode() last began a sync attempt (B)
    lastEnd,         \* end sample of the last annotation put before those in out
    samplenum,       \* self.samplenum
    \* ---- engine B
    pcB,             \* the wait() at which decode() is suspended
    ctx,             \* the caller of wait_for_sync: "decode" or "REPEAT"
    samplerate,
    samples_per_bit,
    syncstart,       \* local of wait_for_sync
    idx,             \* loop index of wait_for_sync's edge loop
    syncret,         \* what the last call of wait_for_sync returned
    attemptBase,     \* Len(out) when the current sync attempt began
    syncstarttime,
    cmdstarttime,
    starttime,
    bytestarttime,
    cmd,             \* the opcode byte being handled
    inRepeat,        \* inside handle_REPEAT's for loop
    count,           \* handle_REPEAT's count
    iter,            \* completed passes of handle_REPEAT's for loop
    acc,             \* bytes read so far of the field being read
    addrstr,         \* handle_LDS's addrstr
    operands,        \* handle_ST's operands
    fieldstart,      \* keystarttime of handle_KEY, sibstarttime of handle_READSIB
    error,           \* the exception that ended decode(), "" when none
    payload,         \* the payload byte pattern of the capture
    nread,           \* position in payload
    period,          \* bit period of the ideal sync waveform (SpecSync), else 0
    \* ---- engine C
    pcC,             \* "idle" between calls of decode(), "walk" in its while loop
    values,          \* decode()'s values: the payload bytes not yet consumed
    addr,            \* decode()'s addr
    ntransfers,      \* calls of decode() so far
    \* ---- engine A
    pcA,             \* "run", or "raised" once decode() ended with an exception
    oldpins,
    oldsci,
    bitnum,
    bit_hightime,
    bit_lowtime,
    bit_old_hightime,
    bit_old_lowtime,
    sii,
    sdi,
    sdo,
    word_ss,
    word_out_ss,
    word_in_ss,
    sdo_word,
    sii_word,
    sdi_word,
    cur_cmd,         \* "0" as start() leaves it, "None", or a command's name
    cur_addr,
    cur_val,
    gen,             \* the words the programmer shifts in the current frame
    gpos,            \* clock edges it has produced in the current frame
    nwords,          \* frames it has begun
    script,          \* the frames it is to shift, in order; <<>> when it is free
    glitches         \* samples fed on which data lines changed between clock edges

varsB == <<pcB, ctx, samplerate, samples_per_bit, syncstart, idx, syncret,
           attemptBase, syncstarttime, cmdstarttime, starttime, bytestarttime,
           cmd, inRepeat, count, iter, acc, addrstr, operands, fieldstart, error,
           payload, nread, period>>

varsC == <<pcC, values, addr, ntransfers>>

varsA == <<pcA, oldpins, oldsci, bitnum, bit_hightime, bit_lowtime,
           bit_old_hightime, bit_old_lowtime, sii, sdi, sdo, word_ss,
           word_out_ss, word_in_ss, sdo_word, sii_word, sdi_word, cur_cmd,
           cur_addr, cur_val, gen, gpos, nwords, script,
           glitches>>

vars == <<engine, out, lastEnd, samplenum, varsA, varsB, varsC>>

\* what the actions of one engine leave alone
notA == <<engine, varsB, varsC>>
notB == <<engine, varsA, varsC>>
notC == <<engine, varsA, varsB>>

----------------------------------------------------------------------------
(* Bounds of the model *)

\* samples fed to engine A on which data lines change between clock edges
MaxGlitches == 1

\* length of the capture, in samples
MaxSample == 430
\* largest REPEAT count fed to the decoder
MaxCount == 2
\* largest bit period of the ideal sync waveform
MaxPeriod == 1000
\* SPI packets handed to engine C
MaxTransfers == 2
\* frames clocked into engine A
MaxWords == 2
\* bytes of one SPI packet
MaxBytes == 6

----------------------------------------------------------------------------
(* Values shared by the engines *)

\* Python's None, where a sample number or a bit period is expected
None == -2

Min(a, b) == IF a <= b THEN a ELSE b

Last(s) == s[Len(s)]

HexDigits == <<"0", "1", "2", "3", "4", "5", "6", "7",
               "8", "9", "A", "B", "C", "D", "E", "F">>

\* "{:02X}".format(v): two digits, or more when v needs them
Hex2(v) ==
    (IF v < 4096 THEN "" ELSE HexDigits[(v \div 4096) + 1])
    \o (IF v < 256 THEN "" ELSE HexDigits[((v \div 256) % 16) + 1])
    \o HexDigits[((v \div 16) % 16) + 1] \o HexDigits[(v % 16) + 1]

\* "{:04X}".format(v)
Hex4(v) ==
    HexDigits[(v \div 4096) + 1] \o HexDigits[((v \div 256) % 16) + 1]
    \o HexDigits[((v \div 16) % 16) + 1] \o HexDigits[(v % 16) + 1]

\* str(n) for the small counts the model feeds
DecDigits == <<"0", "1", "2", "3", "4", "5", "6", "7", "8", "9">>

Str(n) == IF n < 10 THEN DecDigits[n + 1]
          ELSE DecDigits[(n \div 10) + 1] \o DecDigits[(n % 10) + 1]

\* self.put(ss, es, self.out_ann, [ann, [text, ...]]): the record appended
Ann(ss, es, ann, text) == [ss |-> ss, es |-> es, ann |-> ann, text |-> text]

----------------------------------------------------------------------------
(* Engine B: avr_updi *)

\* class UPDI
DATA8 == 0
DATA16 == 1
KEY8 == 0
KEY16 == 1
PTR == 0
PTRINC == 1
PTRREG == 2
OP_LDS == 0
OP_LD == 32
OP_STS == 64
OP_ST == 96
OP_LDCS == 128
OP_REPEAT == 160
OP_STCS == 192
OP_KEY == 224
OP_READSIB == 229

\* cmd & 0xE0
TopBits(c) == (c \div 32) * 32

\* (cmd >> 2) & 0x03
Bits23(c) == (c \div 4) % 4

\* cmd & 0x03
Bits01(c) == c % 4

\* cmd & 0x0F
Bits03(c) == c % 16

\* a name lookup that takes every byte with top bits 111 but READSIB for KEY
opnameKeyFamily(c) ==
    IF c = OP_READSIB THEN "READSIB"
    ELSE IF TopBits(c) = OP_KEY THEN "KEY"
    ELSE IF TopBits(c) = OP_LDS THEN "LDS"
    ELSE IF TopBits(c) = OP_LD THEN "LD"
    ELSE IF TopBits(c) = OP_STS THEN "STS"
    ELSE IF TopBits(c) = OP_ST THEN "ST"
    ELSE IF TopBits(c) = OP_LDCS THEN "LDCS"
    ELSE IF TopBits(c) = OP_REPEAT THEN "REPEAT"
    ELSE "STCS"

\* UPDI.opname(cmd); "None" is Python's None
opname(c) ==
    IF c = OP_KEY THEN "KEY"
    ELSE IF c = OP_READSIB THEN "READSIB"
    ELSE IF TopBits(c) = OP_LDS THEN "LDS"
    ELSE IF TopBits(c) = OP_LD THEN "LD"
    ELSE IF TopBits(c) = OP_STS THEN "STS"
    ELSE IF TopBits(c) = OP_ST THEN "ST"
    ELSE IF TopBits(c) = OP_LDCS THEN "LDCS"
    ELSE IF TopBits(c) = OP_REPEAT THEN "REPEAT"
    ELSE IF TopBits(c) = OP_STCS THEN "STCS"
    ELSE "None"

\* the methods handle_<name> that class Decoder defines
Handlers == {"LDS", "LD", "ST", "LDCS", "REPEAT", "STCS", "KEY", "READSIB"}

\* wait_for_sync's max_bittime
max_bittime == 200

\* self.wait([{0: <edge>}, {'skip': n}]) with the edge d samples ahead:
\* the number of samples the call advances
WaitEdgeOrSkip(d, n) == Min(d, n)

\* the levels of the line at the 8 data-bit midpoints of a frame carrying
\* byte v (UART sends the least significant bit first)
LineBits(v) == [i \in 1..8 |-> (v \div (2 ^ (i - 1))) % 2]

\* wait_for_byte's val: val |= bit << idx for idx in range(8)
ByteVal(bits) ==
    bits[1] + 2 * bits[2] + 4 * bits[3] + 8 * bits[4]
    + 16 * bits[5] + 32 * bits[6] + 64 * bits[7] + 128 * bits[8]

\* wait_for_start from a falling edge at t0: the sample it returns at
StartEnd(t0, spb) == t0 + spb

\* wait_for_data_bit entered at sample t: the sample it returns at
DataBitEnd(t, spb) == t + (spb \div 2) + ((spb + 1) \div 2)

\* wait_for_stop entered at sample t: the sample it returns at
StopEnd(t, spb) == t + (spb \div 2) + (spb + ((spb + 1) \div 2))

\* the sample at which the k-th data bit (k = 1..8) of a byte begins
RECURSIVE BitStart(_, _, _)
BitStart(t0, spb, k) ==
    IF k = 1 THEN StartEnd(t0, spb) ELSE DataBitEnd(BitStart(t0, spb, k - 1), spb)

\* wait_for_byte with the start bit falling at t0: the sample it returns at
ByteEnd(t0, spb) == StopEnd(DataBitEnd(BitStart(t0, spb, 8), spb), spb)

\* wait_for_byte with the start bit falling at t0: the annotations it puts
ByteAnns(t0, spb, bits) ==
    <<Ann(t0, StartEnd(t0, spb), "START_BIT", "Start bit")>>
    \o [k \in 1..8 |->
          Ann(BitStart(t0, spb, k), DataBitEnd(BitStart(t0, spb, k), spb),
              "DATA_BIT", DecDigits[bits[k] + 1])]
    \o <<Ann(DataBitEnd(BitStart(t0, spb, 8), spb), ByteEnd(t0, spb),
             "STOP_BIT", "Stop bit"),
         Ann(t0, ByteEnd(t0, spb), "BYTE_VAL", Hex2(ByteVal(bits)))>>

\* a width rule that reads every selector above DATA8 as two bytes
ValueBytesWide(size) ==
    IF size = DATA8 THEN 1 ELSE 2

\* wait_for_value: the number of bytes a size selector stands for, 0 when
\* the selector makes wait_for_value raise
ValueBytes(size) ==
    IF size = DATA8 THEN 1 ELSE IF size = DATA16 THEN 2 ELSE 0

\* wait_for_value's val and valstr from the bytes read
ValueOf(bytes) ==
    IF Len(bytes) = 1 THEN bytes[1] ELSE bytes[1] + 256 * bytes[2]

ValueStr(bytes) ==
    IF Len(bytes) = 1 THEN Hex2(ValueOf(bytes)) ELSE Hex4(ValueOf(bytes))

\* a value annotation that ends at its own start sample
ValueAnnEndsAtStart(bst, es, ann, name, bytes) ==
    Ann(bst, bst, ann, name \o ": " \o ValueStr(bytes))

\* wait_for_value's annotation
ValueAnn(bst, es, ann, name, bytes) ==
    Ann(bst, es, ann, name \o ": " \o ValueStr(bytes))

\* putopcode(name)
OpcodeAnn(st, es, name) == Ann(st, es, "UPDI_OPCODE", "Opcode: " \o name)

\* putcmd(name, operands)
CmdAnn(cst, es, name, ops) == Ann(cst, es, "UPDI_COMMAND", name \o " " \o ops)

\* bytes.hex().upper(), and handle_KEY's key string
RECURSIVE HexStr(_)
HexStr(bytes) ==
    IF bytes = <<>> THEN "" ELSE Hex2(bytes[1]) \o HexStr(Tail(bytes))

\* handle_KEY's count, 0 when the selector makes it raise
KeyCount(c) ==
    IF Bits01(c) = KEY8 THEN 8 ELSE IF Bits01(c) = KEY16 THEN 16 ELSE 0

\* handle_READSIB's number of bytes
SibLen == 16

\* the printable ASCII characters, from 0x20 to 0x7E (0x60, which a TLA+
\* string cannot hold, by its code)
AsciiChars ==
    <<" ", "!", "\"", "#", "$", "%", "&", "'", "(", ")", "*", "+", ",", "-",
      ".", "/", "0", "1", "2", "3", "4", "5", "6", "7", "8", "9", ":", ";",
      "<", "=", ">", "?", "@", "A", "B", "C", "D", "E", "F", "G", "H", "I",
      "J", "K", "L", "M", "N", "O", "P", "Q", "R", "S", "T", "U", "V", "W",
      "X", "Y", "Z", "[", "\\", "]", "^", "_", "<60>", "a", "b", "c", "d", "e",
      "f", "g", "h", "i", "j", "k", "l", "m", "n", "o", "p", "q", "r", "s",
      "t", "u", "v", "w", "x", "y", "z", "{", "|", "}", "~">>

\* one decoded character; a control character is shown by its code
Chr(b) ==
    IF b >= 32 /\ b <= 126 THEN AsciiChars[b - 31] ELSE "<" \o Hex2(b) \o ">"

\* bytes.decode('ascii') succeeds
IsAscii(bytes) == \A i \in 1..Len(bytes) : bytes[i] < 128

\* bytes.decode('ascii')
RECURSIVE DecodeAscii(_)
DecodeAscii(bytes) ==
    IF bytes = <<>> THEN "" ELSE Chr(bytes[1]) \o DecodeAscii(Tail(bytes))

\* the characters str.strip() removes
IsSpace(b) == b \in {9, 10, 11, 12, 13, 28, 29, 30, 31, 32}

RECURSIVE LStrip(_)
LStrip(bytes) ==
    IF bytes # <<>> /\ IsSpace(bytes[1]) THEN LStrip(Tail(bytes)) ELSE bytes

RECURSIVE RStrip(_)
RStrip(bytes) ==
    IF bytes # <<>> /\ IsSpace(bytes[Len(bytes)])
    THEN RStrip(SubSeq(bytes, 1, Len(bytes) - 1)) ELSE bytes

\* str.strip()
Strip(bytes) == RStrip(LStrip(bytes))

\* sib[a:b], 0-based and half open as in Python
Slice(bytes, a, b) == SubSeq(bytes, a + 1, b)

\* the four text subfields handle_READSIB decodes
SibFields(sib) ==
    <<Slice(sib, 0, 7), Slice(sib, 8, 11), Slice(sib, 11, 14), Slice(sib, 15, 16)>>

\* handle_READSIB's operands
SibText(sib) ==
    "family=\"" \o DecodeAscii(Strip(Slice(sib, 0, 7)))
    \o "\" nvmver=" \o DecodeAscii(Slice(sib, 8, 11))
    \o " ocdver=" \o DecodeAscii(Slice(sib, 11, 14))
    \o " dbgosc=" \o DecodeAscii(Slice(sib, 15, 16))

\* the first wait of handle_<name>(c), or "raised" when the handler raises
\* before it, or when getattr finds no such handler
EnterPc(name, c) ==
    IF name \notin Handlers THEN "raised"
    ELSE IF name = "LDS"
         THEN (IF ValueBytes(Bits23(c)) = 0 THEN "raised" ELSE "LDS_addr")
    ELSE IF name = "LD"
         THEN (IF ValueBytes(Bits01(c)) = 0 THEN "raised" ELSE "LD_data")
    ELSE IF name = "ST"
         THEN (IF ValueBytes(Bits01(c)) = 0 THEN "raised" ELSE "ST_data")
    ELSE IF name = "LDCS" THEN "LDCS_data"
    ELSE IF name = "STCS" THEN "STCS_data"
    ELSE IF name = "REPEAT"
         THEN (IF ValueBytes(Bits01(c)) = 0 THEN "raised" ELSE "REPEAT_count")
    ELSE IF name = "KEY"
         THEN (IF KeyCount(c) = 0 THEN "raised" ELSE "KEY_bytes")
    ELSE "READSIB_bytes"

\* the exception raised there
EnterError(name, c) ==
    IF EnterPc(name, c) # "raised" THEN ""
    ELSE IF name \notin Handlers THEN "AttributeError: handle_" \o name
    ELSE IF name = "KEY" THEN "TODO size too big"
    ELSE "TODO: size too big"

----------------------------------------------------------------------------
(* Engine B: the state machine of decode() *)

inputsB == <<samplerate, payload, period>>
syncV == <<samples_per_bit, syncstart, idx, syncret, attemptBase, syncstarttime>>
byteV == <<starttime, bytestarttime>>
ctlV == <<pcB, error, ctx, cmdstarttime, cmd, inRepeat, count, iter>>
localV == <<acc, addrstr, operands, fieldstart>>

\* samples in the capture: MaxSample, or 12 bit times of the ideal sync
\* waveform when that is what is fed
CaptureEnd == IF period = 0 THEN MaxSample ELSE 12 * period

InitB ==
    /\ pcB = "start"
    /\ ctx = "decode"
    /\ samples_per_bit = None
    /\ syncstart = None
    /\ idx = 0
    /\ syncret = "None"
    /\ attemptBase = 0
    /\ syncstarttime = None
    /\ cmdstarttime = None
    /\ starttime = None
    /\ bytestarttime = None
    /\ cmd = 0
    /\ inRepeat = FALSE
    /\ count = 0
    /\ iter = 0
    /\ acc = <<>>
    /\ addrstr = ""
    /\ operands = ""
    /\ fieldstart = None
    /\ error = ""
    /\ nread = 0

\* the next payload byte of the capture, as line levels
PayloadBits == LineBits(payload[nread + 1])

\* decode(): the samplerate check
B_Start ==
    /\ engine = "B"
    /\ pcB = "start"
    /\ IF samplerate = None \/ samplerate = 0
       THEN pcB' = "raised" /\ error' = "Cannot decode without samplerate."
       ELSE pcB' = "sync_fall" /\ error' = ""
    /\ UNCHANGED <<notB, out, lastEnd, samplenum, inputsB, syncV, byteV,
                   ctx, cmdstarttime, cmd, inRepeat, count, iter, localV, nread>>

\* wait_for_sync: self.wait([{0: 'f'}]), the falling edge d samples ahead.
\* Called from decode()'s loop it begins a new command.
B_SyncFall(d) ==
    /\ engine = "B"
    /\ pcB = "sync_fall"
    /\ samplenum + d <= CaptureEnd
    /\ samplenum' = samplenum + d
    /\ syncstart' = samplenum + d
    /\ pcB' = "sync_start"
    /\ IF ctx = "decode"
       THEN /\ out' = <<>>
            /\ lastEnd' = IF out = <<>> THEN lastEnd ELSE Last(out).es
            /\ attemptBase' = 0
            /\ cmd' = 0 /\ inRepeat' = FALSE /\ count' = 0 /\ iter' = 0
            /\ nread' = 0
       ELSE /\ attemptBase' = Len(out)
            /\ UNCHANGED <<out, lastEnd, cmd, inRepeat, count, iter, nread>>
    /\ UNCHANGED <<notB, inputsB, samples_per_bit, idx, syncret, syncstarttime,
                   byteV, error, ctx, cmdstarttime, localV>>

\* wait_for_sync: the start bit, its rising edge d samples ahead
B_SyncStart(d) ==
    LET t == samplenum + WaitEdgeOrSkip(d, max_bittime * 3)
        bittime == t - syncstart
    IN  /\ engine = "B"
        /\ pcB = "sync_start"
        /\ t <= CaptureEnd
        /\ samplenum' = t
        /\ IF bittime > max_bittime
           THEN /\ syncret' = "False"
                /\ pcB' = "sync_fall"
                /\ UNCHANGED <<out, idx>>
           ELSE /\ out' = Append(out, Ann(syncstart, t, "START_BIT", "Start bit"))
                /\ idx' = 0
                /\ pcB' = "sync_edge"
                /\ UNCHANGED syncret
        /\ UNCHANGED <<notB, lastEnd, inputsB, samples_per_bit, syncstart,
                       attemptBase, syncstarttime, byteV, error, ctx,
                       cmdstarttime, cmd, inRepeat, count, iter, localV, nread>>

\* an average rounded down instead of to nearest
AvgTimeTruncated(t, sstart) == (t - sstart) \div 8

\* an average taken over 7 bit times instead of 8
AvgTimeOver7(t, sstart) == (t - sstart + 4) \div 7

\* floor((self.samplenum - syncstart + 4) / 8)
AvgTime(t, sstart) == (t - sstart + 4) \div 8

\* wait_for_sync after its 7th edge, at sample t: the 8th bit, the stop bits
\* and the byte and sync annotations
SyncTail(t, sstart) ==
    LET spb == AvgTime(t, sstart)
        e1 == DataBitEnd(t, spb)
        e2 == StopEnd(e1, spb)
    IN  <<Ann(t, e1, "DATA_BIT", "x"),
          Ann(e1, e2, "STOP_BIT", "Stop bit"),
          Ann(sstart, e2, "BYTE_VAL", "55"),
          Ann(sstart, e2, "SYNC", "SYNC")>>

\* wait_for_sync: one pass of the loop over 7 more edges, the edge d samples
\* ahead; after the 7th the bit period is set and the call returns True
B_SyncEdge(d) ==
    LET t == samplenum + WaitEdgeOrSkip(d, max_bittime * 3)
        bittime == t - samplenum
        tail == SyncTail(t, syncstart)
    IN  /\ engine = "B"
        /\ pcB = "sync_edge"
        /\ IF bittime > max_bittime
           THEN /\ t <= CaptureEnd
                /\ samplenum' = t
                /\ syncret' = "False"
                /\ pcB' = "sync_fall"
                /\ UNCHANGED <<out, idx, samples_per_bit, syncstarttime, cmdstarttime>>
           ELSE IF idx < 6
           THEN /\ t <= CaptureEnd
                /\ samplenum' = t
                /\ out' = Append(out, Ann(samplenum, t, "DATA_BIT", "x"))
                /\ idx' = idx + 1
                /\ UNCHANGED <<pcB, syncret, samples_per_bit, syncstarttime, cmdstarttime>>
           ELSE /\ Last(tail).es <= CaptureEnd
                /\ samplenum' = Last(tail).es
                /\ out' = Append(out, Ann(samplenum, t, "DATA_BIT", "x")) \o tail
                /\ samples_per_bit' = AvgTime(t, syncstart)
                /\ syncstarttime' = syncstart
                /\ syncret' = "True"
                /\ cmdstarttime' = syncstart
                /\ pcB' = IF ctx = "decode" THEN "opcode" ELSE "rep_opcode"
                /\ UNCHANGED idx
        /\ UNCHANGED <<notB, lastEnd, inputsB, syncstart, attemptBase, byteV,
                       error, ctx, cmd, inRepeat, count, iter, localV, nread>>

\* wait_for_byte, the start bit falling d samples ahead
ReadByte(d) ==
    /\ engine = "B"
    /\ ByteEnd(samplenum + d, samples_per_bit) <= CaptureEnd
    /\ samplenum' = ByteEnd(samplenum + d, samples_per_bit)
    /\ starttime' = samplenum + d
    /\ bytestarttime' = samplenum + d

\* control goes on to the wait p of the same handler
Goto(p) ==
    /\ pcB' = p
    /\ UNCHANGED <<error, ctx, cmdstarttime, cmd, inRepeat, count, iter>>

\* decode() ends with an exception
Raise(msg) ==
    /\ pcB' = "raised"
    /\ error' = msg
    /\ UNCHANGED <<ctx, cmdstarttime, cmd, inRepeat, count, iter, localV>>

\* the handler returns: to handle_REPEAT's for loop, which clears
\* cmdstarttime and calls it again or returns, or to decode()'s loop
Returned ==
    /\ cmdstarttime' = IF inRepeat THEN None ELSE cmdstarttime
    /\ iter' = IF inRepeat THEN iter + 1 ELSE iter
    /\ IF inRepeat /\ iter + 1 <= count
       THEN /\ pcB' = EnterPc(opname(cmd), cmd)
            /\ error' = EnterError(opname(cmd), cmd)
            /\ ctx' = ctx
       ELSE /\ pcB' = "sync_fall"
            /\ error' = ""
            /\ ctx' = "decode"
    /\ acc' = <<>> /\ addrstr' = "" /\ operands' = "" /\ fieldstart' = None
    /\ UNCHANGED <<cmd, inRepeat, count>>

\* putcmd(name, ops) as a handler's last statement, after the annotations
\* pre.  put() is given self.cmdstarttime as the start sample; when that is
\* None the runtime either rejects the call (strict) or records it.
PutCmdReturn(strict, pre, name, ops) ==
    IF cmdstarttime = None /\ strict
    THEN /\ out' = out \o pre
         /\ Raise("TypeError: put")
    ELSE /\ out' = out \o pre \o <<CmdAnn(cmdstarttime, samplenum', name, ops)>>
         /\ Returned

\* the annotations wait_for_byte puts in this step
NowByte(d, bits) == ByteAnns(samplenum + d, samples_per_bit, bits)

NextRead == (nread + 1) % Len(payload)

\* decode(): the opcode byte after a sync, its dispatch and the handler's
\* statements up to its first wait
B_Opcode(d, bits) ==
    LET c == ByteVal(bits)
        name == opname(c)
    IN  /\ pcB = "opcode"
        /\ ReadByte(d)
        /\ cmd' = c
        /\ IF name # "None"
           THEN /\ out' = out \o NowByte(d, bits)
                           \o <<OpcodeAnn(samplenum + d, samplenum', name)>>
                /\ pcB' = EnterPc(name, c)
                /\ error' = EnterError(name, c)
           ELSE /\ out' = out \o NowByte(d, bits)
                           \o <<OpcodeAnn(samplenum + d, samplenum', "??")>>
                /\ pcB' = "sync_fall"
                /\ error' = ""
        /\ UNCHANGED <<notB, lastEnd, inputsB, syncV, ctx, cmdstarttime,
                       inRepeat, count, iter, localV, nread>>

\* handle_REPEAT: the opcode byte after its sync, and the first call of the
\* repeated handler up to its first wait
B_RepOpcode(d, bits) ==
    LET c == ByteVal(bits)
        name == opname(c)
    IN  /\ pcB = "rep_opcode"
        /\ ReadByte(d)
        /\ cmd' = c
        /\ IF name = "None"
           THEN /\ out' = out \o NowByte(d, bits)
                           \o <<OpcodeAnn(samplenum + d, samplenum', "??")>>
                /\ pcB' = "sync_fall" /\ error' = "" /\ ctx' = "decode"
                /\ UNCHANGED inRepeat
           ELSE IF TopBits(c) = OP_REPEAT
           THEN /\ out' = out \o NowByte(d, bits)
                           \o <<OpcodeAnn(samplenum + d, samplenum', "REPEAT!")>>
                /\ pcB' = "sync_fall" /\ error' = "" /\ ctx' = "decode"
                /\ UNCHANGED inRepeat
           ELSE /\ out' = out \o NowByte(d, bits)
                           \o <<OpcodeAnn(samplenum + d, samplenum', name)>>
                /\ pcB' = EnterPc(name, c)
                /\ error' = EnterError(name, c)
                /\ inRepeat' = (name \in Handlers)
                /\ UNCHANGED ctx
        /\ UNCHANGED <<notB, lastEnd, inputsB, syncV, cmdstarttime, count,
                       iter, localV, nread>>

\* handle_REPEAT: one byte of the count; after the last, the count and
\* command annotations, then the call of wait_for_sync
B_REPEAT_count(d, bits) ==
    LET bytes == Append(acc, ByteVal(bits))
    IN  /\ pcB = "REPEAT_count"
        /\ ReadByte(d)
        /\ IF Len(bytes) < ValueBytes(Bits01(cmd))
           THEN /\ out' = out \o NowByte(d, bits)
                /\ acc' = bytes
                /\ UNCHANGED <<pcB, ctx, count>>
           ELSE /\ out' = out \o NowByte(d, bits)
                      \o <<ValueAnn(samplenum + d, samplenum', "UPDI_DATA", "Count", bytes),
                           CmdAnn(cmdstarttime, samplenum', "REPEAT", Str(ValueOf(bytes)))>>
                /\ acc' = <<>>
                /\ count' = ValueOf(bytes)
                /\ pcB' = "sync_fall"
                /\ ctx' = "REPEAT"
        /\ UNCHANGED <<notB, lastEnd, inputsB, syncV, error, cmdstarttime, cmd,
                       inRepeat, iter, addrstr, operands, fieldstart, nread>>

\* handle_LDS: one byte of the address; after the last, the address
\* annotation and the entry of wait_for_data
B_LDS_addr(d, bits) ==
    LET bytes == Append(acc, ByteVal(bits))
    IN  /\ pcB = "LDS_addr"
        /\ ReadByte(d)
        /\ nread' = NextRead
        /\ IF Len(bytes) < ValueBytes(Bits23(cmd))
           THEN /\ out' = out \o NowByte(d, bits)
                /\ acc' = bytes
                /\ Goto("LDS_addr")
                /\ UNCHANGED <<addrstr, operands, fieldstart>>
           ELSE /\ out' = out \o NowByte(d, bits)
                      \o <<ValueAnn(samplenum + d, samplenum', "UPDI_ADDRESS", "Addr", bytes)>>
                /\ IF ValueBytes(Bits01(cmd)) = 0
                   THEN Raise("TODO: size too big")
                   ELSE /\ Goto("LDS_data")
                        /\ acc' = <<>>
                        /\ addrstr' = ValueStr(bytes)
                        /\ UNCHANGED <<operands, fieldstart>>
        /\ UNCHANGED <<notB, lastEnd, inputsB, syncV>>

\* handle_LDS: one byte of the data; after the last, the data and command
\* annotations
B_LDS_data(d, bits, strict) ==
    LET bytes == Append(acc, ByteVal(bits))
    IN  /\ pcB = "LDS_data"
        /\ ReadByte(d)
        /\ nread' = NextRead
        /\ IF Len(bytes) < ValueBytes(Bits01(cmd))
           THEN /\ out' = out \o NowByte(d, bits)
                /\ acc' = bytes
                /\ Goto("LDS_data")
                /\ UNCHANGED <<addrstr, operands, fieldstart>>
           ELSE PutCmdReturn(strict,
                    NowByte(d, bits)
                    \o <<ValueAnn(samplenum + d, samplenum', "UPDI_DATA", "Data", bytes)>>,
                    "LDS", addrstr \o " <- " \o ValueStr(bytes))
        /\ UNCHANGED <<notB, lastEnd, inputsB, syncV>>

\* handle_LD: one byte of the data; after the last, the data annotation and
\* the command annotation, full in a first pass and a continuation after
B_LD_data(d, bits) ==
    LET bytes == Append(acc, ByteVal(bits))
        data == NowByte(d, bits)
                \o <<ValueAnn(samplenum + d, samplenum', "UPDI_DATA", "Data", bytes)>>
        ptr == Bits23(cmd)
    IN  /\ pcB = "LD_data"
        /\ ReadByte(d)
        /\ nread' = NextRead
        /\ IF Len(bytes) < ValueBytes(Bits01(cmd))
           THEN /\ out' = out \o NowByte(d, bits)
                /\ acc' = bytes
                /\ Goto("LD_data")
                /\ UNCHANGED <<addrstr, operands, fieldstart>>
           ELSE IF cmdstarttime # None
           THEN IF ptr = PTR
                THEN PutCmdReturn(FALSE, data, "LD", "[P] <- " \o ValueStr(bytes))
                ELSE IF ptr = PTRINC
                THEN PutCmdReturn(FALSE, data, "LD", "[P+] <- " \o ValueStr(bytes))
                ELSE /\ out' = out \o data
                     /\ Raise("TODO: ptr reserved")
           ELSE /\ out' = out \o data
                      \o <<Ann(samplenum + d, samplenum', "UPDI_COMMAND",
                               "... <- " \o ValueStr(bytes))>>
                /\ Returned
        /\ UNCHANGED <<notB, lastEnd, inputsB, syncV>>

\* handle_ST's operands, "" when the pointer mode makes it raise
StOperands(ptr, valstr) ==
    IF ptr = PTR THEN "[P], " \o valstr
    ELSE IF ptr = PTRINC THEN "[P+], " \o valstr
    ELSE IF ptr = PTRREG THEN "P, " \o valstr
    ELSE ""

\* handle_ST: one byte of the data; after the last, the data annotation and
\* the operands, then the call of wait_for_ACK
B_ST_data(d, bits) ==
    LET bytes == Append(acc, ByteVal(bits))
    IN  /\ pcB = "ST_data"
        /\ ReadByte(d)
        /\ nread' = NextRead
        /\ IF Len(bytes) < ValueBytes(Bits01(cmd))
           THEN /\ out' = out \o NowByte(d, bits)
                /\ acc' = bytes
                /\ Goto("ST_data")
                /\ UNCHANGED <<addrstr, operands, fieldstart>>
           ELSE /\ out' = out \o NowByte(d, bits)
                      \o <<ValueAnn(samplenum + d, samplenum', "UPDI_DATA", "Data", bytes)>>
                /\ IF StOperands(Bits23(cmd), ValueStr(bytes)) = ""
                   THEN Raise("TODO: ptr reserved")
                   ELSE /\ Goto("ST_ack")
                        /\ acc' = <<>>
                        /\ operands' = StOperands(Bits23(cmd), ValueStr(bytes))
                        /\ UNCHANGED <<addrstr, fieldstart>>
        /\ UNCHANGED <<notB, lastEnd, inputsB, syncV>>

\* a handle_ST that puts its command annotation without waiting for the ACK
B_ST_noack(d, bits, strict) ==
    /\ engine = "B"
    /\ pcB = "ST_ack"
    /\ UNCHANGED <<notB, lastEnd, samplenum, byteV, nread, inputsB, syncV>>
    /\ PutCmdReturn(strict, <<>>, "ST", operands)

\* handle_ST: wait_for_ACK, one byte, then the command annotation
B_ST_ack(d, bits, strict) ==
    /\ pcB = "ST_ack"
    /\ ReadByte(d)
    /\ nread' = NextRead
    /\ PutCmdReturn(strict,
           NowByte(d, bits) \o <<Ann(samplenum + d, samplenum', "UPDI_ACK", "ACK")>>,
           "ST", operands)
    /\ UNCHANGED <<notB, lastEnd, inputsB, syncV>>

\* handle_LDCS: the data byte and the command annotation
B_LDCS_data(d, bits, strict) ==
    /\ pcB = "LDCS_data"
    /\ ReadByte(d)
    /\ nread' = NextRead
    /\ PutCmdReturn(strict,
           NowByte(d, bits)
           \o <<ValueAnn(samplenum + d, samplenum', "UPDI_DATA", "Data", <<ByteVal(bits)>>)>>,
           "LDCS", "[" \o Hex2(Bits03(cmd)) \o "] <- " \o Hex2(ByteVal(bits)))
    /\ UNCHANGED <<notB, lastEnd, inputsB, syncV>>

\* handle_STCS: the data byte and the command annotation
B_STCS_data(d, bits, strict) ==
    /\ pcB = "STCS_data"
    /\ ReadByte(d)
    /\ nread' = NextRead
    /\ PutCmdReturn(strict,
           NowByte(d, bits)
           \o <<ValueAnn(samplenum + d, samplenum', "UPDI_DATA", "Data", <<ByteVal(bits)>>)>>,
           "STCS", "[" \o Hex2(Bits03(cmd)) \o "], " \o Hex2(ByteVal(bits)))
    /\ UNCHANGED <<notB, lastEnd, inputsB, syncV>>

\* handle_KEY: one key byte; after the last, the key and command annotations
B_KEY_bytes(d, bits, strict) ==
    LET bytes == Append(acc, ByteVal(bits))
        kst == IF fieldstart = None THEN samplenum + d ELSE fieldstart
    IN  /\ pcB = "KEY_bytes"
        /\ ReadByte(d)
        /\ nread' = NextRead
        /\ IF Len(bytes) < KeyCount(cmd)
           THEN /\ out' = out \o NowByte(d, bits)
                /\ acc' = bytes
                /\ fieldstart' = kst
                /\ Goto("KEY_bytes")
                /\ UNCHANGED <<addrstr, operands>>
           ELSE PutCmdReturn(strict,
                    NowByte(d, bits)
                    \o <<Ann(kst, samplenum', "UPDI_DATA", "Key: " \o HexStr(bytes))>>,
                    "KEY", "0x" \o HexStr(bytes))
        /\ UNCHANGED <<notB, lastEnd, inputsB, syncV>>

\* handle_READSIB: one byte of the SIB; after the 16th, the SIB annotation,
\* the decoding of its text fields and the command annotation
B_READSIB_bytes(d, bits, strict) ==
    LET bytes == Append(acc, ByteVal(bits))
        sst == IF fieldstart = None THEN samplenum + d ELSE fieldstart
        sibann == NowByte(d, bits)
                  \o <<Ann(sst, samplenum', "UPDI_DATA", "SIB: " \o HexStr(bytes))>>
    IN  /\ pcB = "READSIB_bytes"
        /\ ReadByte(d)
        /\ nread' = NextRead
        /\ IF Len(bytes) < SibLen
           THEN /\ out' = out \o NowByte(d, bits)
                /\ acc' = bytes
                /\ fieldstart' = sst
                /\ Goto("READSIB_bytes")
                /\ UNCHANGED <<addrstr, operands>>
           ELSE IF \E i \in 1..4 : ~IsAscii(SibFields(bytes)[i])
           THEN /\ out' = out \o sibann
                /\ Raise("UnicodeDecodeError")
           ELSE PutCmdReturn(strict, sibann, "READSIB", SibText(bytes))
        /\ UNCHANGED <<notB, lastEnd, inputsB, syncV>>

----------------------------------------------------------------------------
(* Engine C: mcp23s17 *)

\* a string from its characters
RECURSIVE Join(_)
Join(chars) == IF chars = <<>> THEN "" ELSE chars[1] \o Join(Tail(chars))

\* registers: the names, by address 0x00..0x15, as their characters
registers ==
    <<<<"I", "O", "D", "I", "R", "A">>, <<"I", "O", "D", "I", "R", "B">>,
      <<"I", "P", "O", "L", "A">>, <<"I", "P", "O", "L", "B">>,
      <<"G", "P", "I", "N", "T", "E", "N", "A">>,
      <<"G", "P", "I", "N", "T", "E", "N", "B">>,
      <<"D", "E", "F", "V", "A", "L", "A">>, <<"D", "E", "F", "V", "A", "L", "B">>,
      <<"I", "N", "T", "C", "O", "N", "A">>, <<"I", "N", "T", "C", "O", "N", "B">>,
      <<"I", "O", "C", "O", "N">>, <<"I", "O", "C", "O", "N">>,
      <<"G", "P", "P", "U", "A">>, <<"G", "P", "P", "U", "B">>,
      <<"I", "N", "T", "F", "A">>, <<"I", "N", "T", "F", "B">>,
      <<"I", "N", "T", "C", "A", "P", "A">>, <<"I", "N", "T", "C", "A", "P", "B">>,
      <<"G", "P", "I", "O", "A">>, <<"G", "P", "I", "O", "B">>,
      <<"O", "L", "A", "T", "A">>, <<"O", "L", "A", "T", "B">>>>

\* addr in registers
InRegisters(a) == a >= 0 /\ a < Len(registers)

\* registers[addr]
RegName(a) == registers[a + 1]

\* a name kept whole
KeepName(chars) == chars

\* name[:-1]
DropLast(chars) == SubSeq(chars, 1, Len(chars) - 1)

\* putselect
SelectAnn(b) ==
    Ann(b.ss, b.es, "select",
        (IF b.val % 2 = 1 THEN "Read" ELSE "Write") \o " " \o Hex2(b.val \div 2))

\* putaddr
AddrAnn(b) == Ann(b.ss, b.es, "addr", "Addr " \o Hex2(b.val))

\* putv
ValAnn(ss, es, name, valstr) == Ann(ss, es, "value", Join(name) \o ": " \o valstr)

\* one pass of decode()'s while loop at address a over the values vs:
\* the annotation it puts
WalkAnn(a, vs) ==
    IF ~InRegisters(a)
    THEN Ann(vs[1].ss, vs[1].es, "warnings", "Unknown register " \o Hex2(a))
    ELSE IF a % 2 = 0 /\ Len(vs) > 1
    THEN ValAnn(vs[1].ss, vs[2].es, DropLast(RegName(a)),
                Hex4(vs[1].val + 256 * vs[2].val))
    ELSE ValAnn(vs[1].ss, vs[1].es, RegName(a), Hex2(vs[1].val))

\* an address step that pairs at every even address, known or not
WalkStepEven(a, vs) ==
    IF a % 2 = 0 /\ Len(vs) > 1 THEN 2 ELSE 1

\* what that pass adds to addr
WalkStep(a, vs) ==
    IF InRegisters(a) /\ a % 2 = 0 /\ Len(vs) > 1 THEN 2 ELSE 1

\* the number of values that pass pops
WalkPops(a, vs) ==
    IF InRegisters(a) /\ a % 2 = 0 /\ Len(vs) > 1 THEN 2 ELSE 1

InitC ==
    /\ pcC = "idle"
    /\ values = <<>>
    /\ addr = 0
    /\ ntransfers = 0

\* decode(ss, es, data) up to its while loop; data is (kind, mosi, miso)
C_Decode(kind, mosi, miso) ==
    /\ engine = "C"
    /\ pcC = "idle"
    /\ ntransfers < MaxTransfers
    /\ ntransfers' = ntransfers + 1
    /\ samplenum' = IF mosi = <<>> THEN samplenum ELSE Last(mosi).es
    /\ lastEnd' = IF out = <<>> THEN lastEnd ELSE Last(out).es
    /\ IF kind # "TRANSFER" \/ Len(mosi) = 0
       THEN /\ out' = <<>>
            /\ UNCHANGED <<pcC, values, addr>>
       ELSE IF Len(mosi) < 2
       THEN /\ out' = <<SelectAnn(mosi[1])>>
            /\ UNCHANGED <<pcC, values, addr>>
       ELSE /\ out' = <<SelectAnn(mosi[1]), AddrAnn(mosi[2])>>
            /\ addr' = mosi[2].val
            /\ values' = IF mosi[1].val % 2 = 1
                         THEN SubSeq(miso, 3, Len(miso))
                         ELSE SubSeq(mosi, 3, Len(mosi))
            /\ pcC' = "walk"
    /\ UNCHANGED notC

\* decode(): one pass of the while loop, or its end
C_Walk ==
    /\ engine = "C"
    /\ pcC = "walk"
    /\ IF values = <<>>
       THEN /\ pcC' = "idle"
            /\ UNCHANGED <<out, values, addr>>
       ELSE /\ out' = Append(out, WalkAnn(addr, values))
            /\ addr' = addr + WalkStep(addr, values)
            /\ values' = SubSeq(values, WalkPops(addr, values) + 1, Len(values))
            /\ UNCHANGED pcC
    /\ UNCHANGED <<notC, lastEnd, samplenum, ntransfers>>

\* samples the SPI decoder spends on one byte
ByteSamples == 8

\* the bytes of an SPI packet of n bytes that begins at sample t0; the k-th
\* carries vals[k]
Packet(t0, vals) ==
    [k \in 1..Len(vals) |->
        [ss |-> t0 + (k - 1) * ByteSamples, es |-> t0 + k * ByteSamples,
         val |-> vals[k]]]

\* the slave-select bytes fed: a write and a read of device 0x20
SelectBytes == {64, 65}

\* the register addresses fed: pairs, odd addresses, IOCON, the last
\* registers and addresses past the table
AddrBytes == {0, 1, 10, 11, 19, 20, 21, 22, 255}

\* the payload bytes fed, by position
PayloadC == <<18, 52, 86, 120>>

\* the first n payload bytes, the pattern PayloadC repeated
PayloadBytes(n) == [k \in 1..n |-> PayloadC[((k - 1) % Len(PayloadC)) + 1]]

\* MISO carries the complement of MOSI
Complement(vals) == [k \in 1..Len(vals) |-> 255 - vals[k]]

\* the packets fed to engine C first: a chip-select change, and transfers of
\* no byte, of one byte, and of select, address and up to MaxBytes - 2 values
Transfers(t0) ==
    {<<"CS-CHANGE", <<>>, <<>>>>}
    \cup {<<"TRANSFER", Packet(t0, vals), Packet(t0, Complement(vals))>> :
            vals \in {<<>>} \cup {<<s>> : s \in SelectBytes}
                     \cup {<<s, a>> \o PayloadBytes(n) :
                             s \in SelectBytes, a \in AddrBytes, n \in 0..(MaxBytes - 2)}}

\* the packets fed after the first: a write and a read of two registers
FollowUps(t0) ==
    {<<"TRANSFER", Packet(t0, vals), Packet(t0, Complement(vals))>> :
            vals \in {<<s, 0>> \o PayloadBytes(2) : s \in SelectBytes}}

\* the packets the SPI decoder may deliver next
Offered ==
    IF engine # "C" \/ pcC # "idle" THEN {}
    ELSE IF ntransfers = 0 THEN Transfers(samplenum + 1)
    ELSE FollowUps(samplenum + 1)

NextC ==
    \/ \E t \in Offered : C_Decode(t[1], t[2], t[3])
    \/ C_Walk

----------------------------------------------------------------------------
(* Engine A: avr_hvsp *)

\* SII_BITNAME, by bit number 0..8
SII_BITNAME == <<"", "", "XA1", "XA0", "BS1", "WR#", "OE#", "BS2", "PAGEL">>

\* the names in SII_BITNAME that end with '#'
ActiveLow == {"WR#", "OE#"}

\* name[:-1] of those names
BareName(name) == IF name = "WR#" THEN "WR" ELSE IF name = "OE#" THEN "OE" ELSE name

\* COMMANDS: the bytes it holds
CommandBytes == {128, 64, 32, 16, 17, 8, 4, 2, 3}

\* COMMANDS[sdi].name
CommandName(b) ==
    IF b = 128 THEN "CE" ELSE IF b = 64 THEN "WFUSE" ELSE IF b = 32 THEN "WLOCK"
    ELSE IF b = 16 THEN "WFLASH" ELSE IF b = 17 THEN "WEEP" ELSE IF b = 8 THEN "RSIG"
    ELSE IF b = 4 THEN "RFUSE" ELSE IF b = 2 THEN "RFLASH" ELSE "REEP"

\* putbit(ss, es, ann, val, name)
BitAnn(ss, es, ann, val, name) ==
    IF name = "" THEN Ann(ss, es, ann, DecDigits[val + 1])
    ELSE IF name \in ActiveLow
    THEN Ann(ss, es, ann, IF val = 0 THEN BareName(name) ELSE " ")
    ELSE Ann(ss, es, ann, IF val # 0 THEN name ELSE " ")

\* putx
HexAnn(ss, es, ann, val) == Ann(ss, es, ann, Hex2(val))

\* puti
InstrAnn(ss, es, text) == Ann(ss, es, "instr", text)

\* a warning put in the instruction row
WarnAsInstr(ss, es, text) == Ann(ss, es, "instr", text)

\* putwarn
WarnAnn(ss, es, text) == Ann(ss, es, "warnings", text)

\* the outcome of a do_* method: the annotations it puts, the registers it
\* leaves, and whether it raised
Outcome(anns, c, a, v, r) ==
    [anns |-> anns, cmd |-> c, addr |-> a, val |-> v, raised |-> r]

\* a low byte loaded with the high byte cleared
SetLowOnly(reg, b) == b

\* (self.cur_addr & 0xFF00) | sdi, for sdi in 0..255
SetLow(reg, b) == ((reg \div 256) % 256) * 256 + b

\* a high byte loaded with the low byte cleared
SetHighOnly(reg, b) == b * 256

\* (sdi << 8) | (self.cur_addr & 0x00FF)
SetHigh(reg, b) == b * 256 + (reg % 256)

do_load_addr(ss, es, bs, b) ==
    IF bs = 0
    THEN Outcome(<<InstrAnn(ss, es, "LLA " \o Hex2(b))>>,
                 cur_cmd, SetLow(cur_addr, b), cur_val, FALSE)
    ELSE IF bs = 1
    THEN Outcome(<<InstrAnn(ss, es, "LHA " \o Hex2(b))>>,
                 cur_cmd, SetHigh(cur_addr, b), cur_val, FALSE)
    ELSE Outcome(<<WarnAnn(ss, es, "LA invalid BS=" \o Str(bs))>>,
                 cur_cmd, cur_addr, cur_val, FALSE)

do_load_data(ss, es, bs, b) ==
    IF bs = 0
    THEN Outcome(<<InstrAnn(ss, es, "LLD " \o Hex2(b))>>,
                 cur_cmd, cur_addr, SetLow(cur_val, b), FALSE)
    ELSE IF bs = 1
    THEN Outcome(<<InstrAnn(ss, es, "LHD " \o Hex2(b))>>,
                 cur_cmd, cur_addr, SetHigh(cur_val, b), FALSE)
    ELSE Outcome(<<>>, cur_cmd, cur_addr, cur_val, FALSE)

\* for an unknown byte putwarn is called with one argument of three, which
\* raises TypeError before cur_cmd is assigned
do_load_command(ss, es, b) ==
    IF b \notin CommandBytes
    THEN Outcome(<<>>, cur_cmd, cur_addr, cur_val, TRUE)
    ELSE Outcome(<<InstrAnn(ss, es, "CMD " \o CommandName(b))>>,
                 CommandName(b), cur_addr, cur_val, FALSE)

\* the fields do_word reads from the SII word
XA(w) == (w \div 32) % 4
BS(w) == ((w \div 16) % 2) + 2 * ((w \div 2) % 2)
WR(w) == (w \div 8) % 2 = 0
OE(w) == (w \div 4) % 2 = 0
PAGEL(w) == w % 2 = 1

do_word(ss, es, w, b) ==
    LET warn(text) == Outcome(<<WarnAnn(ss, es, text)>>, cur_cmd, cur_addr, cur_val, FALSE)
    IN  IF XA(w) # 3 /\ WR(w) THEN warn("Invalid WR")
        ELSE IF XA(w) # 3 /\ OE(w) THEN warn("Invalid OE")
        ELSE IF XA(w) # 3 /\ PAGEL(w) THEN warn("Invalid PAGEL")
        ELSE IF WR(w) /\ OE(w) THEN warn("Invalid WR+OE")
        ELSE IF WR(w) /\ PAGEL(w) THEN warn("Invalid WR+PAGEL")
        ELSE IF OE(w) /\ PAGEL(w) THEN warn("Invalid OE+PAGEL")
        ELSE IF XA(w) = 0 THEN do_load_addr(ss, es, BS(w), b)
        ELSE IF XA(w) = 1 THEN do_load_data(ss, es, BS(w), b)
        ELSE IF XA(w) = 2
        THEN (IF BS(w) # 0 THEN warn("Invalid BS") ELSE do_load_command(ss, es, b))
        ELSE warn("TODO: XA=3")

InitA ==
    /\ pcA = "run"
    /\ oldpins = <<>>
    /\ oldsci = None
    /\ bitnum = None
    /\ bit_hightime = None
    /\ bit_lowtime = None
    /\ bit_old_hightime = None
    /\ bit_old_lowtime = None
    /\ sii = None
    /\ sdi = None
    /\ sdo = None
    /\ word_ss = None
    /\ word_out_ss = None
    /\ word_in_ss = None
    /\ sdo_word = None
    /\ sii_word = None
    /\ sdi_word = None
    /\ cur_cmd = "0"
    /\ cur_addr = 0
    /\ cur_val = 0
    /\ gen = [sii |-> 0, sdi |-> 0, sdo |-> 0]
    /\ gpos = 0
    /\ nwords = 0
    /\ glitches = 0

\* a counter that wraps one position early
NextBitnumTo9 == IF bitnum + 1 > 9 THEN 0 ELSE bitnum + 1

\* self.bitnum after a rising edge
NextBitnum == IF bitnum + 1 > 10 THEN 0 ELSE bitnum + 1

\* a word assembled least significant bit first
ShiftedRight(word, bit) == (word \div 2) + 128 * bit

\* (word << 1) | bit
Shifted(word, bit) == 2 * word + bit

\* sci_rise(pins, n, bn), pins being (sii, sdi, sdo)
sci_rise(p, n, bn) ==
    /\ sii' = p[1]
    /\ sdi' = p[2]
    /\ bit_old_hightime' = bit_hightime
    /\ bit_hightime' = n
    /\ word_ss' = IF bn = 0 THEN n ELSE word_ss
    /\ IF bn < 1 \/ bn > 8
       THEN /\ IF bn = 0
               THEN out' = <<>> /\ lastEnd' = IF out = <<>> THEN lastEnd ELSE Last(out).es
               ELSE UNCHANGED <<out, lastEnd>>
            /\ UNCHANGED <<word_out_ss, sdo_word>>
       ELSE /\ word_out_ss' = IF bn = 1 THEN bit_hightime ELSE word_out_ss
            /\ sdo_word' = Shifted(IF bn = 1 THEN 0 ELSE sdo_word, sdo)
            /\ out' = out \o <<BitAnn(bit_hightime, n, "sdo-bits", sdo, "")>>
                      \o (IF bn = 8
                          THEN <<HexAnn(word_out_ss', n, "sdo", sdo_word')>>
                          ELSE <<>>)
            /\ UNCHANGED lastEnd
    /\ UNCHANGED <<pcA, sdo, bit_lowtime, bit_old_lowtime, word_in_ss, sii_word,
                   sdi_word, cur_cmd, cur_addr, cur_val>>

\* sci_fall(pins, n, bn)
sci_fall(p, n, bn) ==
    LET w == IF bn = 10 THEN do_word(word_ss, n, sii_word, sdi_word)
             ELSE Outcome(<<>>, cur_cmd, cur_addr, cur_val, FALSE)
    IN  /\ sdo' = p[3]
        /\ bit_old_lowtime' = bit_lowtime
        /\ bit_lowtime' = n
        /\ cur_cmd' = w.cmd
        /\ cur_addr' = w.addr
        /\ cur_val' = w.val
        /\ pcA' = IF w.raised THEN "raised" ELSE pcA
        /\ IF bn < 1 \/ bn > 8
           THEN /\ out' = out \o w.anns
                /\ UNCHANGED <<word_in_ss, sii_word, sdi_word>>
           ELSE /\ word_in_ss' = IF bn = 1 THEN bit_lowtime ELSE word_in_ss
                /\ sii_word' = Shifted(IF bn = 1 THEN 0 ELSE sii_word, sii)
                /\ sdi_word' = Shifted(IF bn = 1 THEN 0 ELSE sdi_word, sdi)
                /\ out' = out
                      \o (IF bn > 1
                          THEN <<BitAnn(bit_lowtime, n, "sii-bits", sii, SII_BITNAME[bn + 1])>>
                          ELSE <<>>)
                      \o <<BitAnn(bit_lowtime, n, "sdi-bits", sdi, "")>>
                      \o (IF bn = 8
                          THEN <<HexAnn(word_in_ss', n, "sii", sii_word'),
                                 HexAnn(word_in_ss', n, "sdi", sdi_word')>>
                          ELSE <<>>)
        /\ UNCHANGED <<lastEnd, sii, sdi, bit_hightime, bit_old_hightime, word_ss,
                       word_out_ss, sdo_word>>

decoderA == <<pcA, bitnum, bit_hightime, bit_lowtime, bit_old_hightime,
              bit_old_lowtime, sii, sdi, sdo, word_ss, word_out_ss, word_in_ss,
              sdo_word, sii_word, sdi_word, cur_cmd, cur_addr, cur_val>>

\* decode(): one pass of its loop, over the sample pins = (sci, sii, sdi, sdo)
A_Sample(pins) ==
    /\ engine = "A"
    /\ pcA = "run"
    /\ samplenum' = samplenum + 1
    /\ IF pins = oldpins
       THEN UNCHANGED <<oldpins, oldsci, decoderA, out, lastEnd>>
       ELSE /\ oldpins' = pins
            /\ IF oldsci = None
               THEN /\ oldsci' = pins[1]
                    /\ bitnum' = -1
                    /\ UNCHANGED <<pcA, bit_hightime, bit_lowtime, bit_old_hightime,
                                   bit_old_lowtime, sii, sdi, sdo, word_ss,
                                   word_out_ss, word_in_ss, sdo_word, sii_word,
                                   sdi_word, cur_cmd, cur_addr, cur_val, out, lastEnd>>
               ELSE IF pins[1] = oldsci
               THEN UNCHANGED <<oldsci, decoderA, out, lastEnd>>
               ELSE /\ oldsci' = pins[1]
                    /\ IF pins[1] = 1
                       THEN /\ bitnum' = NextBitnum
                            /\ sci_rise(Tail(pins), samplenum + 1, NextBitnum)
                       ELSE /\ UNCHANGED bitnum
                            /\ sci_fall(Tail(pins), samplenum + 1, bitnum)
    /\ UNCHANGED notA

\* the level of a line that carries the word least significant bit first
BitAtLsbFirst(w, k) == IF k >= 1 /\ k <= 8 THEN (w \div (2 ^ (k - 1))) % 2 ELSE 0

\* the level a line carrying word w has at clock position k: the 8 bits at
\* positions 1..8, most significant first, and low elsewhere
BitAt(w, k) == IF k >= 1 /\ k <= 8 THEN (w \div (2 ^ (8 - k))) % 2 ELSE 0

\* the sample the programmer produces at its next clock edge while shifting
\* the words w: SII and SDI change with the rising edge, SDO with the falling
EdgePins(w) ==
    IF gpos % 2 = 0
    THEN <<1, BitAt(w.sii, gpos \div 2), BitAt(w.sdi, gpos \div 2), oldpins[4]>>
    ELSE <<0, oldpins[2], oldpins[3], BitAt(w.sdo, gpos \div 2)>>

\* clock edges of one frame: 11 positions, a rising and a falling edge each
FrameEdges == 22

\* the capture begins with every line low
A_First ==
    /\ oldpins = <<>>
    /\ A_Sample(<<0, 0, 0, 0>>)
    /\ UNCHANGED <<gen, gpos, nwords, script, glitches>>

\* the capture begins while the clock is high
A_FirstHigh ==
    /\ oldpins = <<>>
    /\ A_Sample(<<1, 0, 0, 0>>)
    /\ UNCHANGED <<gen, gpos, nwords, script, glitches>>

\* the clock falls before the programmer has begun a frame
A_Lower ==
    /\ oldpins # <<>>
    /\ oldpins[1] = 1
    /\ gpos = 0
    /\ nwords = 0
    /\ A_Sample(<<0, oldpins[2], oldpins[3], oldpins[4]>>)
    /\ UNCHANGED <<gen, gpos, nwords, script, glitches>>

\* the clock position after which the programmer idles for one sample
HoldAt == 2

\* a sample on which no line has changed
A_Hold ==
    /\ oldpins # <<>>
    /\ gpos = HoldAt
    /\ samplenum = HoldAt + 1
    /\ A_Sample(oldpins)
    /\ UNCHANGED <<gen, gpos, nwords, script, glitches>>

\* the clock positions of the first frame at which the data lines may change
\* between two edges: one while the clock is high, one while it is low
GlitchAt == {7, 8}

\* SII, SDI and SDO all change level on a sample without a clock edge
A_Glitch ==
    /\ oldpins # <<>>
    /\ nwords = 1
    /\ gpos \in GlitchAt
    /\ glitches < MaxGlitches
    /\ glitches' = glitches + 1
    /\ A_Sample(<<oldpins[1], 1 - oldpins[2], 1 - oldpins[3], 1 - oldpins[4]>>)
    /\ UNCHANGED <<gen, gpos, nwords, script>>

\* the frames the programmer may begin
WordLimit == IF script = <<>> THEN MaxWords ELSE Len(script)

\* the programmer clocks the next edge of a frame carrying the words w
A_Edge(w) ==
    /\ oldpins # <<>>
    /\ oldpins[1] = gpos % 2
    /\ IF gpos = 0
       THEN /\ nwords < WordLimit
            /\ gen' = w
            /\ nwords' = nwords + 1
       ELSE /\ w = gen
            /\ UNCHANGED <<gen, nwords>>
    /\ gpos' = (gpos + 1) % FrameEdges
    /\ UNCHANGED <<script, glitches>>
    /\ A_Sample(EdgePins(w))

\* the SII words fed: each load with either byte select, the reserved mode,
\* each strobe asserted alone and in pairs, BS2 set, and two strobes
\* asserted outside the reserved mode
SiiWords == {12, 28, 44, 60, 76, 92, 108, 4, 8, 13, 96, 101, 105, 100, 14, 46, 0, 9}

\* the SDI words fed: two commands and a byte that is none
SdiWords == {2, 17, 52}

\* the SDO words fed
SdoWords == {165}

\* the frames fed: every SII word with a data byte, and the load-command
\* word with every SDI word
Frames ==
    [sii : SiiWords, sdi : {52}, sdo : SdoWords]
    \cup [sii : {76}, sdi : SdiWords, sdo : SdoWords]

NextA ==
    \/ A_First
    \/ A_FirstHigh
    \/ A_Lower
    \/ A_Hold
    \/ A_Glitch
    \/ \E w \in Frames : A_Edge(w)

----------------------------------------------------------------------------
(* The inputs fed to engine B *)

\* idle samples before a frame's falling edge
Gaps == {1}

\* samples from the falling edge of a sync's start bit to its rising edge:
\* a 2-sample bit and an edge later than max_bittime
StartDelays == {2, max_bittime + 1}

\* samples between two edges of the sync byte
EdgeDelays == {2, max_bittime + 1}

\* the opcode bytes following a sync in decode(): all but the REPEAT opcodes
\* with one of bits 2-4 set, which handle_REPEAT does not read
TopOpcodes == (0..255) \ (164..191)

\* the opcode bytes following the sync inside handle_REPEAT: every size and
\* pointer selector of LDS, LD and ST, and members of every other family
RepOpcodes ==
    (0..15) \cup (32..47) \cup {64} \cup (96..111) \cup {128, 143}
    \cup (160..163) \cup {192, 195} \cup {224, 225, 228, 229, 255}

\* the bytes of a REPEAT count
CountBytes == IF acc = <<>> THEN 0..MaxCount ELSE {0}

\* the payload patterns: text, and bytes that are not ASCII
Payloads == {<<32, 65>>, <<255, 0, 128>>}

NextB ==
    \/ B_Start
    \/ \E d \in Gaps : B_SyncFall(d)
    \/ \E d \in StartDelays : B_SyncStart(d)
    \/ \E d \in EdgeDelays : B_SyncEdge(d)
    \/ \E d \in Gaps, v \in TopOpcodes : B_Opcode(d, LineBits(v))
    \/ \E d \in Gaps, v \in RepOpcodes : B_RepOpcode(d, LineBits(v))
    \/ \E d \in Gaps, v \in CountBytes : B_REPEAT_count(d, LineBits(v))
    \/ \E d \in Gaps : B_LDS_addr(d, PayloadBits)
    \/ \E d \in Gaps, strict \in BOOLEAN : B_LDS_data(d, PayloadBits, strict)
    \/ \E d \in Gaps : B_LD_data(d, PayloadBits)
    \/ \E d \in Gaps : B_ST_data(d, PayloadBits)
    \/ \E d \in Gaps, strict \in BOOLEAN : B_ST_ack(d, PayloadBits, strict)
    \/ \E d \in Gaps, strict \in BOOLEAN : B_LDCS_data(d, PayloadBits, strict)
    \/ \E d \in Gaps, strict \in BOOLEAN : B_STCS_data(d, PayloadBits, strict)
    \/ \E d \in Gaps, strict \in BOOLEAN : B_KEY_bytes(d, PayloadBits, strict)
    \/ \E d \in Gaps, strict \in BOOLEAN : B_READSIB_bytes(d, PayloadBits, strict)

Init ==
    /\ engine \in {"A", "B", "C"}
    /\ out = <<>>
    /\ lastEnd = None
    /\ samplenum = 0
    /\ InitB
    /\ samplerate \in IF engine = "B" THEN {None, 1000000} ELSE {None}
    /\ payload \in IF engine = "B" THEN Payloads ELSE {<<0>>}
    /\ period = 0
    /\ script = <<>>
    /\ InitC
    /\ InitA

Next == NextA \/ NextB \/ NextC

Spec == Init /\ [][Next]_vars

\* engine A alone
InitOnlyA == Init /\ engine = "A"

SpecA == InitOnlyA /\ [][NextA]_vars

\* the frames of a load sequence: LOAD-ADDRESS low and high of a, LOAD-DATA
\* low and high of v, LOAD-COMMAND c
LoadScript(a, v, c) ==
    <<[sii |-> 12, sdi |-> a % 256, sdo |-> 165],
      [sii |-> 28, sdi |-> a \div 256, sdo |-> 165],
      [sii |-> 44, sdi |-> v % 256, sdo |-> 165],
      [sii |-> 60, sdi |-> v \div 256, sdo |-> 165],
      [sii |-> 76, sdi |-> c, sdo |-> 165]>>

\* the addresses and values loaded
LoadAddrs == {0, 255, 65280, 4660, 65535}
LoadVals == {0, 43981, 65535}

\* engine A fed one load sequence
InitLoad ==
    /\ engine = "A"
    /\ out = <<>>
    /\ lastEnd = None
    /\ samplenum = 0
    /\ InitB
    /\ samplerate = None
    /\ payload = <<0>>
    /\ period = 0
    /\ script \in {LoadScript(a, v, c) : a \in LoadAddrs, v \in LoadVals, c \in CommandBytes}
    /\ InitC
    /\ InitA

\* the programmer clocks the next edge of its script
A_Play ==
    /\ script # <<>>
    /\ gpos = 0 => nwords < Len(script)
    /\ A_Edge(script[IF gpos = 0 THEN nwords + 1 ELSE nwords])

NextLoad ==
    \/ A_First
    \/ A_Play

SpecLoad == InitLoad /\ [][NextLoad]_vars

\* engine C alone
InitOnlyC == Init /\ engine = "C"

SpecC == InitOnlyC /\ [][NextC]_vars

\* engine B alone
InitOnlyB == Init /\ engine = "B"

SpecB == InitOnlyB /\ [][NextB]_vars

----------------------------------------------------------------------------
(* Engine B fed an ideal sync byte: the line idles high for one bit time,  *)
(* then carries start bit, 0x55 least significant bit first, and stop bit, *)
(* so it has an edge at every multiple j of the period for j in 1..10,     *)
(* falling for odd j.                                                      *)

\* sample numbers of the edges later than the current sample
FallTimes == {period * j : j \in {1, 3, 5, 7, 9}} \ (0..samplenum)
RiseTimes == {period * j : j \in {2, 4, 6, 8, 10}} \ (0..samplenum)

\* the least member of a non-empty set of sample numbers
Least(S) == CHOOSE x \in S : \A y \in S : x <= y

\* samples until the first edge of the set, if it has one
NextEdge(S) == IF S = {} THEN {} ELSE {Least(S) - samplenum}

\* samples until the condition of a wait matches: the first edge of the set,
\* or, with no edge left, the skip count
DelayTo(S, skip) == IF S = {} THEN {skip} ELSE NextEdge(S)

InitSync ==
    /\ engine = "B"
    /\ out = <<>>
    /\ lastEnd = None
    /\ samplenum = 0
    /\ InitB
    /\ samplerate = 1000000
    /\ payload = <<0>>
    /\ period \in 1..MaxPeriod
    /\ script = <<>>
    /\ InitC
    /\ InitA

NextSync ==
    \/ B_Start
    \/ \E d \in NextEdge(FallTimes) : B_SyncFall(d)
    \/ \E d \in DelayTo(RiseTimes, 3 * max_bittime) : B_SyncStart(d)
    \/ \E d \in DelayTo(FallTimes \cup RiseTimes, 3 * max_bittime) : B_SyncEdge(d)

SpecSync == InitSync /\ [][NextSync]_vars

----------------------------------------------------------------------------
(* Engine B fed one command after a sync whose bit times differ: either    *)
(* the ideal sync byte at the longest bit time wait_for_sync accepts and   *)
(* at one sample more, or (period = 0) a sync byte whose edges come 1 or 2 *)
(* samples apart, followed by an LDCS command, after which the line stays  *)
(* low past max_bittime at every start bit.                                *)

\* samples between two edges of the uneven sync byte
JitterDelays == {1, 2}

\* samples to the next falling edge of an idle line
PeriodFalls == IF period = 0 THEN Gaps ELSE NextEdge(FallTimes)

\* samples from a start bit's falling edge to its rising edge
PeriodStarts ==
    IF period # 0 THEN DelayTo(RiseTimes, 3 * max_bittime)
    ELSE IF samples_per_bit = None THEN JitterDelays
    ELSE {max_bittime + 1}

\* samples to the next edge inside the sync byte
PeriodEdges ==
    IF period # 0 THEN DelayTo(FallTimes \cup RiseTimes, 3 * max_bittime)
    ELSE JitterDelays

InitPeriod ==
    /\ engine = "B"
    /\ out = <<>>
    /\ lastEnd = None
    /\ samplenum = 0
    /\ InitB
    /\ samplerate = 1000000
    /\ payload = <<77>>
    /\ period \in {0, max_bittime, max_bittime + 1}
    /\ script = <<>>
    /\ InitC
    /\ InitA

NextPeriod ==
    \/ B_Start
    \/ \E d \in PeriodFalls : B_SyncFall(d)
    \/ \E d \in PeriodStarts : B_SyncStart(d)
    \/ \E d \in PeriodEdges : B_SyncEdge(d)
    \/ \E d \in Gaps : B_Opcode(d, LineBits(OP_LDCS))
    \/ \E d \in Gaps : B_LDCS_data(d, PayloadBits, TRUE)

SpecPeriod == InitPeriod /\ [][NextPeriod]_vars

----------------------------------------------------------------------------
(* Properties *)

\* the byte values the payload of the capture holds, and the values read
\* from one or two of them
PayloadVals == {payload[i] : i \in DOMAIN payload}
PayloadSeqs == {<<x>> : x \in PayloadVals} \cup (PayloadVals \X PayloadVals)

\* the errors the oversized-field condition raises
SizeErrors == {"TODO: size too big", "TODO size too big"}

\* C1 as stated: in each engine, of two annotations put one after the other
\* the later one starts at or after the sample the earlier one starts at.
C1_StartOrder ==
    \A i \in 1..(Len(out) - 1) : out[i].ss <= out[i + 1].ss

\* C1 amended: in each engine annotations are put in non-decreasing order of
\* their END samples, within a command, frame or packet and from one to the
\* next; the start sample of a later annotation may be smaller.
C1_EndOrder ==
    /\ \A i \in 1..(Len(out) - 1) : out[i].es <= out[i + 1].es
    /\ (out # <<>> /\ lastEnd # None) => lastEnd <= out[1].es

\* an annotation put after one that starts later, yet ends no earlier
C1_Witness ==
    /\ lastEnd # None
    /\ \E i \in 1..(Len(out) - 1) :
          out[i + 1].ss < out[i].ss /\ out[i].es <= out[i + 1].es

\* C2: engine B, a sync attempt abandoned because the start bit or one of the
\* 7 edge intervals exceeds the timeout has emitted no annotation, and the
\* next attempt begins with the wait for a falling edge.
C2_AbandonedSyncEmitsNothing ==
    (engine = "B" /\ syncret = "False" /\ pcB \in {"sync_fall", "sync_start"})
        => Len(out) = attemptBase

\* an attempt inside handle_REPEAT abandoned at an edge interval, its start
\* bit annotation already put
C2_PartialSync ==
    /\ engine = "B" /\ pcB = "sync_fall" /\ syncret = "False" /\ ctx = "REPEAT"
    /\ Len(out) > attemptBase
    /\ out[attemptBase + 1].ann = "START_BIT"

\* handle_REPEAT is over, having dispatched a recognised opcode that is not
\* REPEAT: it returned to decode()'s loop, or it raised something other than
\* the oversized-field error
RepeatEnded ==
    /\ engine = "B"
    /\ \/ pcB = "sync_fall" /\ ctx = "decode" /\ inRepeat
       \/ pcB = "raised" /\ ctx = "REPEAT" /\ error \notin SizeErrors

\* the command annotations of the window
Commands ==
    LET IsCommand(a) == a.ann = "UPDI_COMMAND"
    IN  SelectSeq(out, IsCommand)

\* C3: engine B, after REPEAT N, a sync and a non-REPEAT opcode the handler of
\* that opcode has run N+1 times; for LD with post-increment there are N+1 LD
\* command annotations, the first "[P+] <- value" and the others
\* "... <- value".
C3_RepeatRunsHandler ==
    RepeatEnded =>
        /\ iter = count + 1
        /\ (opname(cmd) = "LD" /\ Bits23(cmd) = PTRINC) =>
              /\ Len(Commands) = count + 2
              /\ Commands[2].text \in {"LD [P+] <- " \o ValueStr(b) : b \in PayloadSeqs}
              /\ \A k \in 3..Len(Commands) :
                    Commands[k].text \in {"... <- " \o ValueStr(b) : b \in PayloadSeqs}

\* REPEAT followed by an STS opcode: no handler has run and decode() raised
C3_RepeatStsRaises ==
    /\ engine = "B" /\ pcB = "raised" /\ ctx = "REPEAT"
    /\ opname(cmd) = "STS" /\ error = "AttributeError: handle_STS"
    /\ iter = 0
    /\ Commands[1].text = "REPEAT " \o Str(count)

\* the command annotations handle_ST can put
StCommandTexts ==
    {"ST " \o StOperands(ptr, ValueStr(b)) : ptr \in {PTR, PTRINC, PTRREG}, b \in PayloadSeqs}

IsStCommand(a) == a.ann = "UPDI_COMMAND" /\ a.text \in StCommandTexts

\* annotations wait_for_byte puts for one byte
ByteAnnCount == 11

\* C4 as stated: engine B, an ST command annotation is put only after a full
\* ACK sync+byte sequence that follows the data value: between the data
\* annotation and the command annotation there are a sync and the ACK.
C4_AckIsSyncAndByte ==
    engine = "B" =>
        \A i \in 1..Len(out) : IsStCommand(out[i]) =>
            \E j, k, l \in 1..(i - 1) :
                /\ j < k /\ k < l
                /\ out[j].ann = "UPDI_DATA"
                /\ out[k].ann = "SYNC"
                /\ out[l].ann = "UPDI_ACK"

\* C4 amended: engine B, an ST command annotation is put only after one
\* further byte, the ACK, has been read after the data value, with no sync
\* between them: the annotations before it are, in order, the data value,
\* the 11 annotations of one byte, and the ACK annotation.
C4_AckByteBeforeSt ==
    engine = "B" =>
        \A i \in 1..Len(out) : IsStCommand(out[i]) =>
            /\ i > ByteAnnCount + 2
            /\ out[i - 1].ann = "UPDI_ACK"
            /\ out[i - 2].ann = "BYTE_VAL"
            /\ out[i - ByteAnnCount - 1].ann = "START_BIT"
            /\ out[i - ByteAnnCount - 2].ann = "UPDI_DATA"
            /\ out[i - 2].ss = out[i - ByteAnnCount - 1].ss
            /\ out[i - 1].ss = out[i - 2].ss
            /\ \A j \in (i - ByteAnnCount - 2)..i : out[j].ann # "SYNC"

\* an ST command annotation has been put
C4_Witness ==
    engine = "B" /\ out # <<>> /\ IsStCommand(Last(out))

\* C5 as stated: engine B, for an ideal sync byte of any bit period from 10
\* to 1000 samples wait_for_sync succeeds and samples_per_bit is within 1 of
\* the period.
C5_Recovery10To1000 ==
    (period >= 10 /\ period <= 1000) =>
        /\ syncret # "False"
        /\ pcB = "opcode" =>
              (samples_per_bit >= period - 1 /\ samples_per_bit <= period + 1)
        /\ pcB # "opcode" => ENABLED NextSync

\* C5 amended: engine B, for an ideal sync byte of any bit period from 10 to
\* max_bittime (200) samples wait_for_sync succeeds at its first attempt and
\* samples_per_bit is within 1 of the period (it equals it); for a longer
\* period no attempt succeeds.
C5_Recovery10To200 ==
    /\ (period >= 10 /\ period <= max_bittime) =>
          /\ syncret # "False"
          /\ pcB = "opcode" =>
                (samples_per_bit >= period - 1 /\ samples_per_bit <= period + 1)
          /\ pcB # "opcode" => ENABLED NextSync
    /\ period > max_bittime => (syncret # "True" /\ pcB # "opcode")

\* the sync byte of the longest period that is recovered
C5_Witness ==
    /\ period = max_bittime /\ pcB = "opcode" /\ syncret = "True"
    /\ samples_per_bit = period

\* C6: engine B, every recognised opcode byte reaches a handler or a marked
\* annotation; STS, which has no payload decoding, does not make the decode
\* fail and the decoder goes back to sync acquisition.
C6_DispatchTotal ==
    [][(engine = "B" /\ pcB \in {"opcode", "rep_opcode"} /\ opname(cmd') # "None")
          => (pcB' = "raised" => error' \in SizeErrors)]_vars

\* decode() has raised on an STS opcode after putting its opcode annotation
C6_StsRaises ==
    /\ engine = "B" /\ pcB = "raised" /\ ctx = "decode"
    /\ cmd = OP_STS /\ error = "AttributeError: handle_STS"
    /\ Last(out).text = "Opcode: STS"

\* the byte is no opcode: top 3 bits 111, and neither KEY nor READSIB
Unrecognised(c) == TopBits(c) = OP_KEY /\ c \notin {OP_KEY, OP_READSIB}

\* C7: engine B, when the byte after a sync (in decode() or after REPEAT) is
\* not a recognised opcode the decoder puts the annotations of that byte and
\* exactly one opcode annotation, "??", enters no handler, reads no payload
\* byte, and goes on to sync acquisition in decode()'s loop.
C7_UnknownOpcode ==
    [][(engine = "B" /\ pcB \in {"opcode", "rep_opcode"} /\ Unrecognised(cmd'))
          => /\ Len(out') = Len(out) + ByteAnnCount + 1
             /\ SubSeq(out', 1, Len(out)) = out
             /\ \A i \in (Len(out) + 1)..(Len(out) + ByteAnnCount) :
                   out'[i].ann \in {"START_BIT", "DATA_BIT", "STOP_BIT", "BYTE_VAL"}
             /\ Last(out') = OpcodeAnn(starttime', samplenum', "??")
             /\ pcB' = "sync_fall" /\ ctx' = "decode" /\ error' = ""
             /\ nread' = nread /\ acc' = acc /\ iter' = iter]_vars

\* an unrecognised opcode after REPEAT has been marked
C7_Witness ==
    /\ engine = "B" /\ pcB = "sync_fall" /\ ctx = "decode"
    /\ Unrecognised(cmd)
    /\ Len(Commands) = 1 /\ Commands[1].text = "REPEAT " \o Str(count)
    /\ Last(out).text = "Opcode: ??"

\* C8: engine B, an LD or ST opcode with a reserved pointer mode is reported
\* as an inline warning and decoding continues with the next sync; the
\* decode does not halt.
C8_ReservedPtrContinues ==
    (engine = "B" /\ opname(cmd) \in {"LD", "ST"}) =>
        ~(pcB = "raised" /\ error = "TODO: ptr reserved")

\* decode() has raised on an LD with pointer mode 3, after the data value
C8_PtrRaises ==
    /\ engine = "B" /\ pcB = "raised" /\ error = "TODO: ptr reserved"
    /\ opname(cmd) = "LD" /\ Bits23(cmd) = 3
    /\ Last(out).ann = "UPDI_DATA"

\* the size selector of the first field handle_<opname(c)> reads
FirstSelector(c) == IF opname(c) = "LDS" THEN Bits23(c) ELSE Bits01(c)

\* the opcode byte c read at this step enters a handler that reads a sized
\* field (handle_REPEAT enters none for a REPEAT opcode)
EntersSized(c) ==
    /\ opname(c) \in {"LDS", "LD", "ST", "REPEAT"}
    /\ ~(pcB = "rep_opcode" /\ opname(c) = "REPEAT")

\* C9: engine B, in LDS, LD, ST and REPEAT a size selector of 2 or 3 stops
\* the decode with an explicit error before any byte of that field is read
\* and with no address, data or command annotation put for it (the last
\* annotation is the opcode's, or the address's for the data field of LDS);
\* no field is ever read under a selector of 2 or 3.
C9_OversizedStops ==
    [][engine = "B" =>
        /\ (pcB \in {"opcode", "rep_opcode"} /\ EntersSized(cmd')
              /\ FirstSelector(cmd') >= 2)
             => /\ pcB' = "raised" /\ error' = "TODO: size too big"
                /\ Last(out').ann = "UPDI_OPCODE"
                /\ nread' = nread /\ acc' = <<>>
        /\ (pcB = "LDS_addr" /\ pcB' # "LDS_addr" /\ Bits01(cmd) >= 2)
             => /\ pcB' = "raised" /\ error' = "TODO: size too big"
                /\ Last(out').ann = "UPDI_ADDRESS"
                /\ acc' = acc
        /\ pcB' \in {"LDS_data", "LD_data", "ST_data", "REPEAT_count"}
             => Bits01(cmd') < 2
        /\ pcB' = "LDS_addr" => Bits23(cmd') < 2]_vars

\* an LDS whose data selector is 2 or 3 has raised after its address
C9_Witness ==
    /\ engine = "B" /\ pcB = "raised" /\ error = "TODO: size too big"
    /\ opname(cmd) = "LDS" /\ Bits01(cmd) >= 2
    /\ Last(out).ann = "UPDI_ADDRESS"

\* C10: engine B, a KEY opcode with size selector 0 or 1 is dispatched to the
\* KEY handler, which reads exactly 8 bytes for selector 0 and 16 for
\* selector 1 and annotates their hex digits in the order received.
C10_KeySizes ==
    [][engine = "B" =>
        /\ (pcB \in {"opcode", "rep_opcode"} /\ TopBits(cmd') = OP_KEY
              /\ Bits23(cmd') = 0 /\ Bits01(cmd') \in {KEY8, KEY16})
             => /\ pcB' = "KEY_bytes"
                /\ Last(out').text = "Opcode: KEY"
        /\ (pcB = "KEY_bytes" /\ pcB' # "KEY_bytes")
             => /\ Len(acc) + 1 = (IF Bits01(cmd) = KEY8 THEN 8 ELSE 16)
                /\ out'[Len(out) + ByteAnnCount + 1].text
                     = "Key: " \o HexStr(Append(acc, payload[nread + 1]))]_vars

\* the opcode 0xE1, KEY with selector 1, has been marked unknown
C10_Key16Unknown ==
    /\ engine = "B" /\ pcB = "sync_fall" /\ ctx = "decode"
    /\ cmd = OP_KEY + KEY16
    /\ Last(out).text = "Opcode: ??"

\* C11: engine B, READSIB reads exactly 16 bytes, and when a byte of one of
\* the four text subfields is not ASCII the decode does not fail: the
\* handler returns and the decoder goes on to sync acquisition.
C11_ReadsibSurvivesNonAscii ==
    [][(engine = "B" /\ pcB = "READSIB_bytes" /\ pcB' # "READSIB_bytes")
          => /\ Len(acc) + 1 = SibLen
             /\ pcB' # "raised" \/ error' = "TypeError: put"]_vars

\* decode() has raised on a SIB whose family field holds the byte 0xFF,
\* after the SIB annotation
C11_ReadsibRaises ==
    /\ engine = "B" /\ pcB = "raised" /\ error = "UnicodeDecodeError"
    /\ cmd = OP_READSIB /\ ctx = "decode"
    /\ payload[1] >= 128
    /\ Last(out).ann = "UPDI_DATA"

\* the pass of decode()'s while loop taken at this step
WalkPass == engine = "C" /\ pcC = "walk" /\ values # <<>>

\* the values that pass takes off the front of values
Consumed == Len(values) - Len(values')

\* C12: engine C, in one transfer the address starts at the address byte and
\* never decreases; every pass of the walk adds to it the number of payload
\* bytes it consumes (so after k bytes it is the start plus k), takes those
\* bytes off the front, and puts one value or warning annotation that spans
\* exactly them; at an unknown address it consumes one byte, puts one
\* warning and adds 1, also at an even address with bytes remaining.
C12_AddressWalk ==
    [][/\ (engine = "C" /\ pcC = "idle" /\ pcC' = "walk")
            => \E t \in Offered :
                  /\ Len(t[2]) >= 2
                  /\ addr' = t[2][2].val
                  /\ values' = SubSeq(IF t[2][1].val % 2 = 1 THEN t[3] ELSE t[2],
                                      3, Len(t[2]))
       /\ WalkPass
            => /\ addr' >= addr
               /\ Consumed >= 1
               /\ addr' - addr = Consumed
               /\ values' = SubSeq(values, Consumed + 1, Len(values))
               /\ out' = Append(out, Last(out'))
               /\ Last(out').ann \in {"value", "warnings"}
               /\ Last(out').ss = values[1].ss
               /\ Last(out').es = values[Consumed].es
               /\ ~InRegisters(addr)
                    => /\ Consumed = 1
                       /\ addr' = addr + 1
                       /\ Last(out').ann = "warnings"
       /\ (engine = "C" /\ pcC = "walk" /\ values = <<>>)
            => (pcC' = "idle" /\ UNCHANGED <<out, addr, values>>)]_vars

\* a warning put for an even unknown address, one byte consumed and bytes
\* remaining
C12_Witness ==
    /\ engine = "C" /\ pcC = "walk" /\ values # <<>>
    /\ Last(out).ann = "warnings"
    /\ addr > Len(registers) /\ addr % 2 = 1
    /\ Last(out).es = values[1].ss

\* a register name with its A or B suffix stripped
StripAB(chars) ==
    IF Last(chars) \in {"A", "B"} THEN SubSeq(chars, 1, Len(chars) - 1) ELSE chars

\* C13: engine C, at a known even address with a next byte the two bytes
\* become one annotation of value low | (high << 8), from the first byte's
\* start to the second's end, named by the register's name with its A/B
\* suffix stripped, and the address advances by 2; at an odd known address
\* or with no next byte, one 8-bit annotation under the full name, and the
\* address advances by 1.
C13_PairMerge ==
    [][(WalkPass /\ InRegisters(addr))
          => IF addr % 2 = 0 /\ Len(values) > 1
             THEN /\ Last(out') =
                        Ann(values[1].ss, values[2].es, "value",
                            Join(StripAB(RegName(addr))) \o ": "
                            \o Hex4(values[1].val + 256 * values[2].val))
                  /\ addr' = addr + 2
             ELSE /\ Last(out') =
                        Ann(values[1].ss, values[1].es, "value",
                            Join(RegName(addr)) \o ": " \o Hex2(values[1].val))
                  /\ addr' = addr + 1]_vars

\* the pair at IOCON, address 0x0A, was put under the name "IOCO"
C13_IoconTruncated ==
    /\ engine = "C" /\ pcC = "walk" /\ Len(out) = 3
    /\ out[2].text = "Addr 0A"
    /\ out[3].text \in {"IOCO: " \o Hex4(v[1] + 256 * v[2]) :
                          v \in {PayloadBytes(2), Complement(PayloadBytes(2))}}
    /\ addr = 12

\* the transfer decoded last was a write to device 0x20 at address 0x00
\* with 4 payload bytes
IodirWrite ==
    /\ engine = "C" /\ Len(out) >= 2
    /\ out[1].text = "Write 20" /\ out[2].text = "Addr 00"
    /\ samplenum - out[1].ss = 6 * ByteSamples

\* the annotation of the pair of payload bytes i and i + 1 (from 0) of that
\* transfer under the name given
PairAnn(i, name) ==
    Ann(out[1].ss + (2 + i) * ByteSamples, out[1].ss + (4 + i) * ByteSamples,
        "value",
        name \o ": " \o Hex4(PayloadBytes(4)[i + 1] + 256 * PayloadBytes(4)[i + 2]))

\* that transfer puts exactly two value annotations, over payload bytes 0, 1
\* and 2, 3, under the two names given, the address going from 0 to 2 to 4
TwoPairs(first, second) ==
    IodirWrite =>
        /\ Len(out) <= 4
        /\ Len(out) = 2 => (addr = 0 /\ pcC = "walk" /\ Len(values) = 4)
        /\ Len(out) >= 3 => out[3] = PairAnn(0, first)
        /\ Len(out) = 3 => (addr = 2 /\ pcC = "walk" /\ Len(values) = 2)
        /\ Len(out) = 4 => (out[4] = PairAnn(2, second) /\ addr = 4 /\ values = <<>>)
        /\ pcC = "idle" => Len(out) = 4

\* C14 as stated: engine C, a write transfer at address 0x00 with 4 payload
\* bytes puts exactly two 16-bit value annotations, both named "IODIR", the
\* first over payload bytes 0 and 1 and the second over bytes 2 and 3, the
\* address advancing by 2 each time.
C14_BothIodir == TwoPairs("IODIR", "IODIR")

\* C14: engine C, a write transfer at address 0x00 with 4 payload bytes puts
\* exactly two 16-bit value annotations, the first named "IODIR" over payload
\* bytes 0 and 1 and the second named "IPOL" (the register pair at address
\* 0x02) over bytes 2 and 3, the address advancing by 2 each time.
C14_IodirThenIpol == TwoPairs("IODIR", "IPOL")

\* that transfer has been decoded to its end
C14_Witness ==
    IodirWrite /\ pcC = "idle" /\ Len(out) = 4 /\ out[4] = PairAnn(2, "IPOL")

\* the falling edge at counter position 10 is decoded at this step
WordStep == engine = "A" /\ pcA = "run" /\ bitnum = 10 /\ oldsci = 1 /\ oldsci' = 0

\* an SII word whose XA is not 3 and that asserts WR, OE or PAGEL
StrobeOutsideXA3(w) == XA(w) # 3 /\ (WR(w) \/ OE(w) \/ PAGEL(w))

\* the first signal that word asserts, in the order WR, OE, PAGEL
FirstAsserted(w) == IF WR(w) THEN "WR" ELSE IF OE(w) THEN "OE" ELSE "PAGEL"

\* C15: engine A, for every instruction word whose XA is not 3 and in which
\* WR, OE or PAGEL is asserted, do_word puts exactly one warning, named for
\* the first asserted signal in the order WR, OE, PAGEL, puts no instruction
\* annotation and leaves the current command, address and value unchanged;
\* and so does the decoder at the falling edge that hands it such a word.
C15_SignalValidation ==
    /\ [](engine = "A" =>
            \A w \in 0..255 : \A b \in {0, 255} :
                StrobeOutsideXA3(w) =>
                    do_word(0, samplenum, w, b)
                      = [anns |-> <<Ann(0, samplenum, "warnings",
                                        "Invalid " \o FirstAsserted(w))>>,
                         cmd |-> cur_cmd, addr |-> cur_addr, val |-> cur_val,
                         raised |-> FALSE])
    /\ [][(WordStep /\ StrobeOutsideXA3(sii_word))
            => /\ out' = Append(out, Ann(word_ss, samplenum', "warnings",
                                         "Invalid " \o FirstAsserted(sii_word)))
               /\ UNCHANGED <<cur_cmd, cur_addr, cur_val, pcA>>]_vars

\* a word asserting both WR and OE with XA = 0 has been interpreted
C15_Witness ==
    /\ engine = "A" /\ bitnum = 10 /\ oldsci = 0
    /\ sii_word = 0 /\ out # <<>>
    /\ Last(out) = Ann(word_ss, samplenum, "warnings", "Invalid WR")

\* an SII word that asserts none of WR, OE and PAGEL
NoStrobe(w) == ~WR(w) /\ ~OE(w) /\ ~PAGEL(w)

\* C16: engine A, when a valid LOAD-COMMAND word (XA = 2, BS = 0, no strobe
\* asserted) carries an SDI byte that is not in the command table, the
\* decoder puts one warning over the word's interval, sets the current
\* command to unset and goes on decoding.
C16_UnknownCommand ==
    [][(WordStep /\ XA(sii_word) = 2 /\ BS(sii_word) = 0 /\ NoStrobe(sii_word)
          /\ sdi_word \notin CommandBytes)
         => /\ out' = Append(out, Last(out'))
            /\ Last(out').ann = "warnings"
            /\ Last(out').ss = word_ss
            /\ Last(out').es = samplenum'
            /\ cur_cmd' = "None"
            /\ pcA' = "run"]_vars

\* decode() has raised at a LOAD-COMMAND word with an unknown byte, with no
\* warning put and the current command as it was
C16_Raised ==
    /\ engine = "A" /\ pcA = "raised"
    /\ sii_word = 76 /\ sdi_word \notin CommandBytes
    /\ Last(out).ann = "sdi"
    /\ cur_cmd # "None"

\* C17: engine A, for a LOAD-ADDRESS word and a LOAD-DATA word alike, BS = 0
\* loads the low byte, BS = 1 loads the high byte, and any other BS (BS2
\* set) puts a warning annotation and changes no register.
C17_SubSelector ==
    [][(WordStep /\ XA(sii_word) \in {0, 1} /\ NoStrobe(sii_word))
         => LET reg == IF XA(sii_word) = 0 THEN cur_addr ELSE cur_val
                reg1 == IF XA(sii_word) = 0 THEN cur_addr' ELSE cur_val'
                other == IF XA(sii_word) = 0 THEN <<cur_val, cur_cmd>>
                         ELSE <<cur_addr, cur_cmd>>
            IN  /\ UNCHANGED other
                /\ BS(sii_word) = 0 =>
                      (reg1 % 256 = sdi_word /\ reg1 \div 256 = reg \div 256)
                /\ BS(sii_word) = 1 =>
                      (reg1 \div 256 = sdi_word /\ reg1 % 256 = reg % 256)
                /\ BS(sii_word) \notin {0, 1} =>
                      /\ reg1 = reg
                      /\ out' = Append(out, Last(out'))
                      /\ Last(out').ann = "warnings"]_vars

\* a LOAD-DATA word with BS2 set has been interpreted and nothing was put
C17_SilentLoadData ==
    /\ engine = "A" /\ pcA = "run" /\ bitnum = 10 /\ oldsci = 0
    /\ XA(sii_word) = 1 /\ BS(sii_word) = 2 /\ NoStrobe(sii_word)
    /\ Last(out) = HexAnn(word_in_ss, Last(out).es, "sdi", sdi_word)

\* C18: engine A, for every 16-bit address a, 16-bit value v and command
\* byte c of the command table, once the words LOAD-ADDRESS low,
\* LOAD-ADDRESS high, LOAD-DATA low, LOAD-DATA high and LOAD-COMMAND c have
\* been decoded in that order, the current address is a, the current value
\* is v and the current command is the table entry of c.
C18_LoadSequence ==
    (engine = "A" /\ script # <<>> /\ nwords = Len(script) /\ gpos = 0)
        => \E a \in LoadAddrs, v \in LoadVals, c \in CommandBytes :
              /\ script = LoadScript(a, v, c)
              /\ pcA = "run"
              /\ cur_addr = a
              /\ cur_val = v
              /\ cur_cmd = CommandName(c)

\* the sequence loading 0x1234, 0xABCD and WEEP has been decoded
C18_Witness ==
    /\ engine = "A" /\ nwords = 5 /\ gpos = 0
    /\ script = LoadScript(4660, 43981, 17)
    /\ cur_addr = 4660 /\ cur_val = 43981 /\ cur_cmd = "WEEP"
    /\ Last(out) = InstrAnn(word_ss, samplenum, "CMD WEEP")

\* decode() calls sci_rise, or sci_fall, at this step
RiseStep == engine = "A" /\ oldsci = 0 /\ oldsci' = 1
FallStep == engine = "A" /\ oldsci = 1 /\ oldsci' = 0

\* every rising edge adds 1 to the counter, 10 wrapping to 0, and no other
\* sample changes it
CounterSteps ==
    /\ RiseStep => bitnum' = (IF bitnum = 10 THEN 0 ELSE bitnum + 1)
    /\ (engine = "A" /\ oldsci # None /\ ~RiseStep) => bitnum' = bitnum

\* C19 as stated: engine A, whenever sci_rise or sci_fall runs the bit
\* counter is in 0..10; it increases by exactly 1 on every rising edge,
\* wraps from 10 to 0, and is unchanged by falling edges and by samples
\* without a clock transition.
C19_CounterIn0To10 ==
    [][/\ RiseStep => bitnum' \in 0..10
       /\ FallStep => bitnum \in 0..10
       /\ CounterSteps]_vars

\* C19: engine A, whenever sci_rise runs the bit counter is in 0..10, and
\* whenever sci_fall runs it is in -1..10, being -1 only when no rising
\* edge has been seen yet (the capture began with the clock high); it
\* increases by exactly 1 on every rising edge, wraps from 10 to 0, and is
\* unchanged by falling edges and by samples without a clock transition.
C19_CounterFromMinus1 ==
    [][/\ RiseStep => bitnum' \in 0..10
       /\ FallStep => /\ bitnum \in -1..10
                      /\ bitnum = -1 => bit_hightime = None
       /\ CounterSteps]_vars

\* the counter has wrapped from 10 to 0 at the first rising edge of the
\* second frame
C19_Witness ==
    /\ engine = "A" /\ bitnum = 0 /\ oldsci = 1
    /\ nwords = 2 /\ gpos = 1
    /\ bit_hightime = samplenum /\ word_ss = samplenum

\* the word made of the levels a line carrying w has at the rising edges of
\* positions 1..8, the first most significant
AtRises(w) ==
    LET RECURSIVE upto(_)
        upto(k) == IF k = 0 THEN 0 ELSE 2 * upto(k - 1) + BitAt(w, k)
    IN  upto(8)

\* the word made of the levels a line carrying w is given at the 8 falling
\* edges before the rising edge of position 8, the first most significant
AtFalls(w) ==
    LET RECURSIVE upto(_)
        upto(k) == IF k = 0 THEN 0 ELSE 2 * upto(k - 1) + BitAt(w, k - 1)
    IN  upto(8)

\* the annotations of out' that out does not hold
Put == IF Len(out') >= Len(out) /\ SubSeq(out', 1, Len(out)) = out
       THEN SubSeq(out', Len(out) + 1, Len(out'))
       ELSE out'

\* C20: engine A, SII and SDI are sampled at rising edges and SDO at falling
\* edges, and only there; the SII and SDI words take in, most significant
\* first, the values sampled at the rising edges of positions 1..8, and the
\* SDO word the values sampled at falling edges, put as one annotation at
\* position 8; do_word runs only at the falling edge of position 10, which
\* comes once per frame of 11 rising edges, on the SII and SDI words of
\* that frame.
C20_WordAssembly ==
    [][engine = "A" =>
        /\ IF RiseStep THEN sii' = oldpins'[2] /\ sdi' = oldpins'[3]
           ELSE UNCHANGED <<sii, sdi>>
        /\ IF FallStep THEN sdo' = oldpins'[4] ELSE UNCHANGED sdo
        /\ IF FallStep /\ bitnum \in 1..8
           THEN /\ sii_word' = 2 * (IF bitnum = 1 THEN 0 ELSE sii_word) + sii
                /\ sdi_word' = 2 * (IF bitnum = 1 THEN 0 ELSE sdi_word) + sdi
           ELSE UNCHANGED <<sii_word, sdi_word>>
        /\ IF RiseStep /\ bitnum' \in 1..8
           THEN sdo_word' = 2 * (IF bitnum' = 1 THEN 0 ELSE sdo_word) + sdo
           ELSE UNCHANGED sdo_word
        /\ (\E i \in 1..Len(Put) : Put[i].ann = "sdo")
              <=> (RiseStep /\ bitnum' = 8)
        /\ (RiseStep /\ bitnum' = 8)
              => /\ sdo_word' = AtFalls(gen.sdo)
                 /\ Last(out') = HexAnn(word_out_ss, samplenum', "sdo", sdo_word')
        /\ WordStep <=> (gpos = FrameEdges - 1 /\ gpos' = 0)
        /\ IF WordStep
           THEN LET w == do_word(word_ss, samplenum', AtRises(gen.sii), AtRises(gen.sdi))
                IN  /\ sii_word = AtRises(gen.sii)
                    /\ sdi_word = AtRises(gen.sdi)
                    /\ Put = w.anns
                    /\ <<cur_cmd', cur_addr', cur_val'>> = <<w.cmd, w.addr, w.val>>
                    /\ (pcA' = "raised") = w.raised
           ELSE /\ UNCHANGED <<cur_cmd, cur_addr, cur_val, pcA>>
                /\ \A i \in 1..Len(Put) : Put[i].ann \notin {"instr", "warnings"}]_vars

\* a frame whose data lines changed level between two clock edges has been
\* interpreted as the load of its SDI byte
C20_Witness ==
    /\ engine = "A" /\ pcA = "run" /\ glitches > 0
    /\ nwords = 1 /\ gpos = 0 /\ bitnum = 10 /\ oldsci = 0
    /\ sii_word = 12 /\ gen.sii = 12 /\ sdi_word = gen.sdi
    /\ Last(out) = InstrAnn(word_ss, samplenum, "LLA " \o Hex2(gen.sdi))
    /\ cur_addr = gen.sdi

\* C21: engine A, the current address and the current value change only
\* when a LOAD-ADDRESS or LOAD-DATA word is interpreted; LOAD-ADDRESS
\* replaces only the selected byte of the address and leaves its other byte
\* and the value unchanged, LOAD-DATA does the same for the value; every
\* word that yields a warning or is a LOAD-COMMAND leaves both unchanged;
\* and both registers stay within 0..0xFFFF.
C21_RegisterFrame ==
    /\ [](engine = "A" => (cur_addr \in 0..65535 /\ cur_val \in 0..65535))
    /\ [][engine = "A" =>
            LET xa == XA(sii_word)
                bs == BS(sii_word)
                load == WordStep /\ NoStrobe(sii_word) /\ bs \in {0, 1}
            IN  /\ cur_addr' # cur_addr => (load /\ xa = 0)
                /\ cur_val' # cur_val => (load /\ xa = 1)
                /\ (load /\ xa = 0) =>
                      /\ cur_val' = cur_val
                      /\ bs = 0 => (/\ cur_addr' % 256 = sdi_word
                                    /\ cur_addr' \div 256 = cur_addr \div 256)
                      /\ bs = 1 => (/\ cur_addr' \div 256 = sdi_word
                                    /\ cur_addr' % 256 = cur_addr % 256)
                /\ (load /\ xa = 1) =>
                      /\ cur_addr' = cur_addr
                      /\ bs = 0 => (/\ cur_val' % 256 = sdi_word
                                    /\ cur_val' \div 256 = cur_val \div 256)
                      /\ bs = 1 => (/\ cur_val' \div 256 = sdi_word
                                    /\ cur_val' % 256 = cur_val % 256)
                /\ (WordStep /\ (xa = 2 \/ \E i \in 1..Len(Put) :
                                              Put[i].ann = "warnings"))
                      => UNCHANGED <<cur_addr, cur_val>>]_vars

\* the high byte of the address has been loaded over a low byte loaded by
\* the frame before, which it left in place
C21_Witness ==
    /\ engine = "A" /\ nwords = 2 /\ gpos = 0 /\ bitnum = 10 /\ oldsci = 0
    /\ XA(sii_word) = 0 /\ BS(sii_word) = 1 /\ sdi_word = 52
    /\ cur_addr = 52 * 256 + 52 /\ cur_val = 0
    /\ Last(out) = InstrAnn(word_ss, samplenum, "LHA 34")

\* wait_for_sync returns True, or a wait_for_byte returns, at this step
SyncDone == engine = "B" /\ pcB = "sync_edge" /\ pcB' \in {"opcode", "rep_opcode"}
ByteDone == engine = "B" /\ bytestarttime' # bytestarttime

\* the value of the 8 data bits annotated in anns[2..9], the first being the
\* least significant
LsbFirst(anns) ==
    LET bit(k) == IF anns[k + 1].text = "1" THEN 1 ELSE 0
        RECURSIVE from(_)
        from(k) == IF k > 8 THEN 0 ELSE bit(k) + 2 * from(k + 1)
    IN  from(1)

\* C22: engine B, after every successful sync samples_per_bit is
\* floor((T + 4) / 8), T being the samples from the start bit's falling edge
\* to the 8th measured edge, and it is in 1..200; no other step, an
\* abandoned sync attempt included, changes samples_per_bit; and every byte
\* read ends exactly 11 of these periods after its start bit's falling edge:
\* one start period, 8 data bits of one period each, the first the least
\* significant, and a stop of 2 periods.
C22_BitPeriod ==
    [][engine = "B" =>
        /\ IF SyncDone
           THEN LET edge8 == out'[Len(out) + 1]
                IN  /\ edge8.ann = "DATA_BIT" /\ edge8.ss = samplenum
                    /\ samples_per_bit' = (edge8.es - syncstart + 4) \div 8
                    /\ samples_per_bit' >= 1 /\ samples_per_bit' <= 200
           ELSE UNCHANGED samples_per_bit
        /\ ByteDone =>
             LET t0 == bytestarttime'
                 spb == samples_per_bit
                 b == SubSeq(out', Len(out) + 1, Len(out) + ByteAnnCount)
             IN  /\ t0 > samplenum
                 /\ samplenum' = t0 + 11 * spb
                 /\ Len(out') >= Len(out) + ByteAnnCount
                 /\ b[1] = Ann(t0, t0 + spb, "START_BIT", "Start bit")
                 /\ \A k \in 1..8 :
                       /\ b[k + 1].ann = "DATA_BIT"
                       /\ b[k + 1].text \in {"0", "1"}
                       /\ b[k + 1].ss = t0 + k * spb
                       /\ b[k + 1].es = t0 + (k + 1) * spb
                 /\ b[10] = Ann(t0 + 9 * spb, t0 + 11 * spb, "STOP_BIT", "Stop bit")
                 /\ b[11] = Ann(t0, t0 + 11 * spb, "BYTE_VAL", Hex2(LsbFirst(b)))]_vars

\* a sync whose 8 edges took 13 samples set the period to 2, and the data
\* byte of the LDCS after it was read in 22 samples
C22_Witness ==
    /\ engine = "B" /\ period = 0 /\ pcB = "sync_fall" /\ cmd = OP_LDCS
    /\ samples_per_bit = 2
    /\ bytestarttime # None /\ samplenum = bytestarttime + 22
    /\ Len(out) > ByteAnnCount
    /\ out[Len(out) - 2].text = Hex2(payload[1])
    /\ \E t \in 1..MaxSample : /\ syncstarttime = t /\ cmdstarttime = t
                               /\ out[8].es = t + 13
                               /\ starttime = t + 13 + 3 * 2 + 1 + 11 * 2 + 1

\* C23: engine B, every annotation put has a defined start sample that is
\* not after its end sample, put() is never given an undefined start, also
\* for the command annotations of the second and later iterations of a
\* REPEAT, and the command start is defined when a top-level command's
\* opcode is awaited.
C23_IntervalsWellFormed ==
    engine = "B" =>
        /\ \A i \in 1..Len(out) : out[i].ss # None /\ out[i].ss <= out[i].es
        /\ error # "TypeError: put"
        /\ pcB = "opcode" => cmdstarttime # None

\* the second iteration of a repeated command has put its command
\* annotation with no start sample
C23_UndefinedStart ==
    /\ engine = "B" /\ inRepeat /\ count >= 1 /\ iter = 2
    /\ out # <<>>
    /\ Last(out).ann = "UPDI_COMMAND"
    /\ Last(out).ss = None
    /\ Last(out).es = samplenum

====
